---- MODULE Spec2Model ----
(***************************************************************************)
(* A model of the RustRayTracer light-transport core:                      *)
(*   - the Sampler trait and its two implementations (src/sampler.rs),     *)
(*   - the tile-parallel render driver (src/renderer.rs),                  *)
(*   - camera-path generation and the connection step                      *)
(*     (src/tracers/utils.rs, src/tracers/mcpt.rs),                        *)
(*   - the shapes, the scene and mesh scans, the dielectric material and   *)
(*     the stratified sample tables, post-processing and transforms.       *)
(* The specifications share the variables:                                 *)
(*   Spec           the render driver with its worker pool,                *)
(*   SpecSampler    the two samplers driven by the same call sequence,     *)
(*   SpecTiles      the tile rectangles of render, for a range of sizes,   *)
(*   SpecPath       one call of MonteCarloPathTracer::trace,               *)
(*   SpecConnect    one call of connect,                                   *)
(*   SpecScan       Scene::intersect and Mesh::intersect, object by object,*)
(*   SpecShape      construction and intersect of one shape,               *)
(*   SpecDielectric one call of IdealDielectric::scatter,                  *)
(*   SpecStrata     generate_samples of the StratifiedSampler,             *)
(*   SpecPost       one call of post_process,                              *)
(*   SpecDraws      the draws of a StratifiedSampler from its tables,      *)
(*   SpecTransform  transform of a plane and of a mesh,                    *)
(*   SpecPixel      the normalized coordinates of one sample,              *)
(*   FairSpec       Spec under fair scheduling of the workers.             *)
(***************************************************************************)
EXTENDS Integers, Sequences, FiniteSets, TLC

VARIABLES
    cfg,        \* RenderConfig: image size, sampler config, parallelism
    tileState,  \* tile_index -> "pending" | "running" | "done" | "aborted"
    task,       \* worker -> the locals of the tile closure it is running
    samplers,   \* sampler instance -> its fields (plus the tasks that called it)
    img,        \* the Mutex<ImageBuffer>: holder of the lock, writes per pixel
    progress,   \* the ProgressBar position
    renderPc,   \* "running" | "returned" | "panicked"
    pair,       \* SpecSampler: a RandomSampler and a StratifiedSampler side by side
    tileRects,  \* SpecTiles: the rectangles computed so far, by tile_index
    pt,         \* SpecPath: the locals of trace / generate_camera_vertices
    call        \* the specifications of single functions: arguments and result

vars == <<cfg, tileState, task, samplers, img, progress, renderPc, pair, tileRects, pt, call>>
renderVars == <<tileState, task, samplers, img, progress, renderPc>>

(***************************************************************************)
(* Bounds of the model.                                                    *)
(***************************************************************************)
MaxWidth == 17          \* image widths of Spec: 1..MaxWidth
MaxHeight == 2          \* image heights of Spec: 1..MaxHeight
MaxPixels == 17         \* images of Spec have at most MaxPixels pixels
MaxSpp == 2             \* samples_per_pixel and strata counts: 1..MaxSpp
MaxParallelism == 2     \* worker threads: 1..MaxParallelism
MaxTraceDraws == 1      \* get_1d calls one trace may make, in Spec
MaxCalls == 6           \* start_next_sample calls recorded per pixel, in SpecSampler
MaxTileWidth == 33      \* image widths of SpecTiles
MaxTileHeight == 33     \* image heights of SpecTiles
One == 4                \* fixed-point scale: the f64 value v is the integer v * One
MaxMinDepth == 2        \* min_depth of the tracer: 0..MaxMinDepth
MaxMaxDepth == 3        \* max_depth of the tracer: 0..MaxMaxDepth
MaxObjects == 2         \* objects of a scene: 0..MaxObjects
MaxCameraVertices == 2  \* camera vertices of a call of connect, in SpecConnect
MaxLightVertices == 2   \* light-subpath lengths s of a call of connect: 0..MaxLightVertices
MaxCoord == 3           \* scene objects lie at z in 0..MaxCoord
MaxFaces == 2           \* faces of a mesh: 0..MaxFaces
MaxLayer == 1           \* mesh vertices lie on the layers 0..MaxLayer
MaxGrid == 1            \* free vertices of SpecShape have x, y in -MaxGrid..MaxGrid
MaxWindow == 2          \* the windows of SpecShape end at 1..MaxWindow or f64::MAX
MaxCos == 4             \* cosines and uniform samples of SpecDielectric are k / MaxCos
SqrtScale == 8          \* square roots are rounded down to a multiple of 1 / SqrtScale
MaxStrataSamples == 3   \* samples_per_pixel of SpecStrata: x_strata * y_strata <= MaxStrataSamples
JitterBits == 2         \* bits of rng.gen::<f64>() and of the f64 significand, in SpecStrata
MaxScale == 2           \* the largest scaling factor of the matrices of SpecTransform
MaxFairSpp == 1         \* samples_per_pixel of the configurations of FairSpec
SqrtMax == 46340        \* the largest integer whose square is below 2^31

(***************************************************************************)
(* Program constants.                                                      *)
(***************************************************************************)
tile_size == 16
StratifiedDimensions == 4
CoplanarTolInv == 1000  \* 1 / 1e-3, the tolerance of are_points_coplanar
SceneEpsilonInv == 1000 \* 1 / 0.001, the t_min of Scene::intersect

Min(a, b) == IF a < b THEN a ELSE b

(***************************************************************************)
(* sampler.rs                                                              *)
(***************************************************************************)
RandomSampler_new(samples_per_pixel) ==
    [kind |-> "Random", samples_per_pixel |-> samples_per_pixel,
     current_sample |-> 0, users |-> {}]

\* The assert_eq! of StratifiedSampler::new.
StratifiedSampler_accepts(samples_per_pixel, x_strata, y_strata) ==
    x_strata * y_strata = samples_per_pixel

StratifiedSampler_new(samples_per_pixel, x_strata, y_strata, dimensions) ==
    [kind |-> "Stratified", samples_per_pixel |-> samples_per_pixel,
     x_strata |-> x_strata, y_strata |-> y_strata, dimensions |-> dimensions,
     current_sample_index |-> 0, current_dimension |-> 0, users |-> {}]

Random_start_pixel(s) == [s EXCEPT !.current_sample = 0]

Stratified_start_pixel(s) ==
    [s EXCEPT !.current_sample_index = 0, !.current_dimension = 0]

\* get_1d and get_2d: the RandomSampler keeps no position; the
\* StratifiedSampler consumes one dimension slot while slots remain.
Random_get(s) == s

Stratified_get_same_slot(s) == s

Stratified_get(s) ==
    IF s.current_dimension >= s.dimensions
    THEN s
    ELSE [s EXCEPT !.current_dimension = @ + 1]

\* start_next_sample: [s |-> the sampler after the call, r |-> the result].
Random_start_next_sample(s) ==
    IF s.current_sample < s.samples_per_pixel
    THEN [s |-> [s EXCEPT !.current_sample = @ + 1], r |-> TRUE]
    ELSE [s |-> s, r |-> FALSE]

Stratified_start_next_sample(s) ==
    IF s.current_sample_index < s.samples_per_pixel - 1
    THEN [s |-> [s EXCEPT !.current_sample_index = @ + 1, !.current_dimension = 0],
          r |-> TRUE]
    ELSE [s |-> s, r |-> FALSE]

\* Dispatch through Box<dyn Sampler>.
start_pixel(s) ==
    IF s.kind = "Random" THEN Random_start_pixel(s) ELSE Stratified_start_pixel(s)

get_1d(s) == IF s.kind = "Random" THEN Random_get(s) ELSE Stratified_get(s)

get_2d(s) == IF s.kind = "Random" THEN Random_get(s) ELSE Stratified_get(s)

start_next_sample(s) ==
    IF s.kind = "Random" THEN Random_start_next_sample(s)
    ELSE Stratified_start_next_sample(s)

samples_per_pixel(s) == s.samples_per_pixel

\* SamplerConfig::to_sampler; the caller has checked to_sampler_panics.
to_sampler_panics(c) ==
    /\ c.kind = "Stratified"
    /\ ~StratifiedSampler_accepts(c.samples_per_pixel, c.x_strata, c.y_strata)

to_sampler(c) ==
    IF c.kind = "Random"
    THEN RandomSampler_new(c.samples_per_pixel)
    ELSE StratifiedSampler_new(c.samples_per_pixel, c.x_strata, c.y_strata,
                               StratifiedDimensions)

\* n successive get_1d calls.
RECURSIVE get_1d_times(_, _)
get_1d_times(s, n) == IF n = 0 THEN s ELSE get_1d_times(get_1d(s), n - 1)

SamplerConfigs ==
    [kind : {"Random"}, samples_per_pixel : 1..MaxSpp, x_strata : {1}, y_strata : {1}]
    \cup
    [kind : {"Stratified"}, samples_per_pixel : 1..MaxSpp,
     x_strata : 1..MaxSpp, y_strata : 1..MaxSpp]

(***************************************************************************)
(* renderer.rs: the tile rectangles                                        *)
(***************************************************************************)
tiles_x(width) == (width + tile_size - 1) \div tile_size

tiles_y(height) == (height + tile_size - 1) \div tile_size

tile_count(width, height) == tiles_x(width) * tiles_y(height)

x_end_unclipped(x_start, width) == x_start + tile_size

x_end_short(x_start, width) == Min(x_start + tile_size, width) - 1

x_end_of(x_start, width) == Min(x_start + tile_size, width)

y_end_of(y_start, height) == Min(y_start + tile_size, height)

TileRect(tile_index, width, height) ==
    LET tile_x == tile_index % tiles_x(width)
        tile_y == tile_index \div tiles_x(width)
        x_start == tile_x * tile_size
        y_start == tile_y * tile_size
    IN [x_start |-> x_start, y_start |-> y_start,
        x_end |-> x_end_of(x_start, width),
        y_end |-> y_end_of(y_start, height)]

\* The pixels the two for loops of a tile visit.
RectPixels(r) == (r.x_start .. r.x_end - 1) \X (r.y_start .. r.y_end - 1)

ImagePixels(width, height) == (0 .. width - 1) \X (0 .. height - 1)

Tiles(c) == 0 .. tile_count(c.width, c.height) - 1

(***************************************************************************)
(* renderer.rs: render                                                     *)
(***************************************************************************)
Workers == 1 .. cfg.parallelism

IdleTask ==
    [pc |-> "idle", tile |-> 0,
     rect |-> [x_start |-> 0, y_start |-> 0, x_end |-> 0, y_end |-> 0],
     sampler |-> 0, spp |-> 0, x |-> 0, y |-> 0, accumulated |-> 0]

RenderConfigs ==
    {c \in [width : 1..MaxWidth, height : 1..MaxHeight, sampler : SamplerConfigs,
            parallelism : 1..MaxParallelism] :
        c.width * c.height <= MaxPixels}

\* The threads of the pool are interchangeable: a job goes to the idle
\* thread of lowest index.
FirstIdle(w) ==
    /\ task[w].pc = "idle"
    /\ \A v \in 1 .. w - 1 : task[v].pc # "idle"

\* Box::new: every to_sampler call yields a new instance; the handle of the
\* instance just created is the length of the store.
alloc_sampler_shared(store, s) == IF store = <<>> THEN <<s>> ELSE store

alloc_sampler(store, s) == Append(store, s)

\* A method call on the sampler behind handle h, made by the task of tile i.
CallSampler(store, h, i, after) ==
    [store EXCEPT ![h] = [after EXCEPT !.users = store[h].users \cup {i}]]

InitRender ==
    /\ cfg \in RenderConfigs
    /\ tileState = [i \in Tiles(cfg) |-> "pending"]
    /\ task = [w \in 1 .. cfg.parallelism |-> IdleTask]
    /\ samplers = <<>>
    /\ img = [lock |-> 0,
              writes |-> [p \in ImagePixels(cfg.width, cfg.height) |-> 0]]
    /\ progress = 0
    /\ renderPc = "running"
    /\ call = <<>>
    /\ pair = <<>>
    /\ tileRects = <<>>
    /\ pt = <<>>

\* The pool hands tile_index i to worker w; the closure computes its
\* rectangle and creates its sampler (lines 103-111).
TakeTile(w, i) ==
    /\ renderPc = "running"
    /\ FirstIdle(w)
    /\ tileState[i] = "pending"
    /\ ~to_sampler_panics(cfg.sampler)
    /\ LET r == TileRect(i, cfg.width, cfg.height)
           store == alloc_sampler(samplers, to_sampler(cfg.sampler))
           h == Len(store)
       IN /\ samplers' = store
          /\ IF r.x_start < r.x_end /\ r.y_start < r.y_end
             THEN /\ task' = [task EXCEPT ![w] =
                        [pc |-> "start_pixel", tile |-> i, rect |-> r, sampler |-> h,
                         spp |-> samples_per_pixel(store[h]),
                         x |-> r.x_start, y |-> r.y_start, accumulated |-> 0]]
                  /\ tileState' = [tileState EXCEPT ![i] = "running"]
             ELSE /\ task' = task
                  /\ tileState' = [tileState EXCEPT ![i] = "done"]
    /\ UNCHANGED <<call, cfg, img, progress, renderPc, pair, tileRects, pt>>

\* The assert_eq! of StratifiedSampler::new fails inside the closure.
TakeTilePanics(w, i) ==
    /\ renderPc = "running"
    /\ FirstIdle(w)
    /\ tileState[i] = "pending"
    /\ to_sampler_panics(cfg.sampler)
    /\ tileState' = [tileState EXCEPT ![i] = "aborted"]
    /\ UNCHANGED <<call, cfg, task, samplers, img, progress, renderPc, pair, tileRects, pt>>

\* Lines 114-115.
StartPixel(w) ==
    /\ task[w].pc = "start_pixel"
    /\ samplers' = CallSampler(samplers, task[w].sampler, task[w].tile,
                               start_pixel(samplers[task[w].sampler]))
    /\ task' = [task EXCEPT ![w].pc = "sample", ![w].accumulated = 0]
    /\ UNCHANGED <<call, cfg, tileState, img, progress, renderPc, pair, tileRects, pt>>

\* Lines 117-121: get_2d, create_ray, trace (which draws k further values
\* from the sampler), color += the radiance.
Sample(w) ==
    /\ task[w].pc = "sample"
    /\ \E k \in 0 .. MaxTraceDraws :
          samplers' = CallSampler(samplers, task[w].sampler, task[w].tile,
                          get_1d_times(get_2d(samplers[task[w].sampler]), k))
    /\ task' = [task EXCEPT ![w].pc = "next_sample", ![w].accumulated = @ + 1]
    /\ UNCHANGED <<call, cfg, tileState, img, progress, renderPc, pair, tileRects, pt>>

\* trace panics (material.rs:199 reflectance > 1.0): the task unwinds, the
\* pool thread catches the panic and is free for another tile.
TracePanics(w) ==
    /\ task[w].pc = "sample"
    /\ tileState' = [tileState EXCEPT ![task[w].tile] = "aborted"]
    /\ task' = [task EXCEPT ![w] = IdleTask]
    /\ UNCHANGED <<call, cfg, samplers, img, progress, renderPc, pair, tileRects, pt>>

\* Lines 122-124.
NextSample(w) ==
    /\ task[w].pc = "next_sample"
    /\ LET res == start_next_sample(samplers[task[w].sampler])
       IN /\ samplers' = CallSampler(samplers, task[w].sampler, task[w].tile, res.s)
          /\ task' = [task EXCEPT ![w].pc = IF res.r THEN "sample" ELSE "averaged"]
    /\ UNCHANGED <<call, cfg, tileState, img, progress, renderPc, pair, tileRects, pt>>

\* Lines 126-127: color /= spp, post_process.
Average(w) ==
    /\ task[w].pc = "averaged"
    /\ task' = [task EXCEPT ![w].pc = "lock"]
    /\ UNCHANGED <<call, cfg, tileState, samplers, img, progress, renderPc, pair, tileRects, pt>>

lock_unguarded(w) == TRUE

lock_free(w) == img.lock = 0

\* Line 128: img.lock().unwrap() blocks until the mutex is free.
Lock(w) ==
    /\ task[w].pc = "lock"
    /\ lock_free(w)
    /\ img' = [img EXCEPT !.lock = w]
    /\ task' = [task EXCEPT ![w].pc = "write"]
    /\ UNCHANGED <<call, cfg, tileState, samplers, progress, renderPc, pair, tileRects, pt>>

\* Lines 129-134.
Write(w) ==
    /\ task[w].pc = "write"
    /\ img' = [img EXCEPT !.writes[<<task[w].x, task[w].y>>] = @ + 1]
    /\ task' = [task EXCEPT ![w].pc = "inc"]
    /\ UNCHANGED <<call, cfg, tileState, samplers, progress, renderPc, pair, tileRects, pt>>

inc_twice(n) == n + 2

inc(n) == n + 1

\* Line 136: pb.inc(1).
Inc(w) ==
    /\ task[w].pc = "inc"
    /\ progress' = inc(progress)
    /\ task' = [task EXCEPT ![w].pc = "unlock"]
    /\ UNCHANGED <<call, cfg, tileState, samplers, img, renderPc, pair, tileRects, pt>>

Unlock_keeps_guard(w) ==
    /\ task[w].pc = "unlock"
    /\ task' = [task EXCEPT ![w].pc = "start_pixel"]
    /\ UNCHANGED <<call, cfg, tileState, samplers, img, progress, renderPc, pair, tileRects, pt>>

\* Line 137: the guard is dropped at the end of the loop body; the for
\* loops advance, and the closure returns after the last pixel of the tile.
Unlock(w) ==
    /\ task[w].pc = "unlock"
    /\ img' = [img EXCEPT !.lock = 0]
    /\ LET t == task[w]
       IN IF t.x + 1 < t.rect.x_end
          THEN /\ task' = [task EXCEPT ![w].pc = "start_pixel", ![w].x = @ + 1]
               /\ UNCHANGED tileState
          ELSE IF t.y + 1 < t.rect.y_end
          THEN /\ task' = [task EXCEPT ![w].pc = "start_pixel",
                                       ![w].x = t.rect.x_start, ![w].y = @ + 1]
               /\ UNCHANGED tileState
          ELSE /\ task' = [task EXCEPT ![w] = IdleTask]
               /\ tileState' = [tileState EXCEPT ![t.tile] = "done"]
    /\ UNCHANGED <<call, cfg, samplers, progress, renderPc, pair, tileRects, pt>>

join_never_ready(ts) == FALSE

join_ready(ts) == \A i \in DOMAIN ts : ts[i] \in {"done", "aborted"}

\* for_each returns once every tile task has ended (lines 100-139).  With
\* no panic, render unwraps the image and returns it (lines 140-147).
Return ==
    /\ renderPc = "running"
    /\ join_ready(tileState)
    /\ \A i \in DOMAIN tileState : tileState[i] = "done"
    /\ renderPc' = "returned"
    /\ UNCHANGED <<call, cfg, tileState, task, samplers, img, progress, pair, tileRects, pt>>

\* A panic of a tile task is resumed in the caller of for_each: render
\* unwinds and returns no image.
Panic ==
    /\ renderPc = "running"
    /\ join_ready(tileState)
    /\ \E i \in DOMAIN tileState : tileState[i] = "aborted"
    /\ renderPc' = "panicked"
    /\ UNCHANGED <<call, cfg, tileState, task, samplers, img, progress, pair, tileRects, pt>>

Next ==
    \/ \E w \in Workers, i \in DOMAIN tileState : TakeTile(w, i)
    \/ \E w \in Workers, i \in DOMAIN tileState : TakeTilePanics(w, i)
    \/ \E w \in Workers : StartPixel(w)
    \/ \E w \in Workers : Sample(w)
    \/ \E w \in Workers : TracePanics(w)
    \/ \E w \in Workers : NextSample(w)
    \/ \E w \in Workers : Average(w)
    \/ \E w \in Workers : Lock(w)
    \/ \E w \in Workers : Write(w)
    \/ \E w \in Workers : Inc(w)
    \/ \E w \in Workers : Unlock(w)
    \/ Return
    \/ Panic

Spec == InitRender /\ [][Next]_vars

(***************************************************************************)
(* SpecTiles: the tile rectangles of render, one tile_index at a time      *)
(***************************************************************************)
TileConfigs ==
    [width : 1..MaxTileWidth, height : 1..MaxTileHeight,
     sampler : {[kind |-> "Random", samples_per_pixel |-> 1,
                 x_strata |-> 1, y_strata |-> 1]},
     parallelism : {1}]

InitTiles ==
    /\ cfg \in TileConfigs
    /\ tileRects = <<>>
    /\ tileState = <<>>
    /\ task = <<>>
    /\ samplers = <<>>
    /\ img = <<>>
    /\ progress = 0
    /\ renderPc = "tiles"
    /\ call = <<>>
    /\ pair = <<>>
    /\ pt = <<>>

\* Lines 103-108 for tile_index = Len(tileRects).
ComputeTile ==
    /\ renderPc = "tiles"
    /\ Len(tileRects) < tile_count(cfg.width, cfg.height)
    /\ tileRects' = Append(tileRects, TileRect(Len(tileRects), cfg.width, cfg.height))
    /\ UNCHANGED <<call, cfg, renderVars, pair, pt>>

NextTiles == ComputeTile

SpecTiles == InitTiles /\ [][NextTiles]_vars

(***************************************************************************)
(* SpecSampler: a RandomSampler and a StratifiedSampler built with the     *)
(* same samples_per_pixel and driven by the same calls                     *)
(***************************************************************************)
InitSampler ==
    /\ \E n \in 1..MaxSpp, xs \in 1..MaxSpp, ys \in 1..MaxSpp :
          /\ StratifiedSampler_accepts(n, xs, ys)
          /\ pair = [random |-> RandomSampler_new(n),
                     stratified |-> StratifiedSampler_new(n, xs, ys, StratifiedDimensions),
                     started |-> FALSE, rseq |-> <<>>, sseq |-> <<>>]
    /\ cfg = <<>>
    /\ tileRects = <<>>
    /\ tileState = <<>>
    /\ task = <<>>
    /\ samplers = <<>>
    /\ img = <<>>
    /\ progress = 0
    /\ renderPc = "sampler"
    /\ call = <<>>
    /\ pt = <<>>

PairStartPixel ==
    /\ renderPc = "sampler"
    /\ pair' = [pair EXCEPT !.random = start_pixel(@),
                            !.stratified = start_pixel(@),
                            !.started = TRUE, !.rseq = <<>>, !.sseq = <<>>]
    /\ UNCHANGED <<call, cfg, renderVars, tileRects, pt>>

PairGet1d ==
    /\ renderPc = "sampler"
    /\ pair.started
    /\ pair' = [pair EXCEPT !.random = get_1d(@), !.stratified = get_1d(@)]
    /\ UNCHANGED <<call, cfg, renderVars, tileRects, pt>>

PairGet2d ==
    /\ renderPc = "sampler"
    /\ pair.started
    /\ pair' = [pair EXCEPT !.random = get_2d(@), !.stratified = get_2d(@)]
    /\ UNCHANGED <<call, cfg, renderVars, tileRects, pt>>

\* The results since the last start_pixel are recorded, MaxCalls of them.
PairNextSample ==
    /\ renderPc = "sampler"
    /\ pair.started
    /\ Len(pair.rseq) < MaxCalls
    /\ LET r == start_next_sample(pair.random)
           t == start_next_sample(pair.stratified)
       IN pair' = [pair EXCEPT !.random = r.s, !.stratified = t.s,
                               !.rseq = Append(@, r.r), !.sseq = Append(@, t.r)]
    /\ UNCHANGED <<call, cfg, renderVars, tileRects, pt>>

NextSampler == PairStartPixel \/ PairGet1d \/ PairGet2d \/ PairNextSample

SpecSampler == InitSampler /\ [][NextSampler]_vars

(***************************************************************************)
(* f64 and Vec3D.  A finite value is a fixed-point integer; NaN and        *)
(* +infinity are kept apart.  Throughput and radiance are never negative.  *)
(***************************************************************************)
Fin(n) == [c |-> "fin", v |-> n]
NaN == [c |-> "nan", v |-> 0]
Inf == [c |-> "inf", v |-> 0]

FOne == Fin(One)
FZero == Fin(0)

FAdd(a, b) ==
    IF a.c = "nan" \/ b.c = "nan" THEN NaN
    ELSE IF a.c = "inf" \/ b.c = "inf" THEN Inf
    ELSE Fin(a.v + b.v)

FMul(a, b) ==
    IF a.c = "nan" \/ b.c = "nan" THEN NaN
    ELSE IF a.c = "inf" THEN (IF b = FZero THEN NaN ELSE Inf)
    ELSE IF b.c = "inf" THEN (IF a = FZero THEN NaN ELSE Inf)
    ELSE Fin((a.v * b.v) \div One)

FDiv(a, b) ==
    IF a.c = "nan" \/ b.c = "nan" THEN NaN
    ELSE IF a.c = "inf" THEN (IF b.c = "inf" THEN NaN ELSE Inf)
    ELSE IF b.c = "inf" THEN FZero
    ELSE IF b.v = 0 THEN (IF a.v = 0 THEN NaN ELSE Inf)
    ELSE Fin((a.v * One) \div b.v)

\* a > b; false when either is NaN.
FGt(a, b) ==
    IF a.c = "nan" \/ b.c = "nan" THEN FALSE
    ELSE IF b.c = "inf" THEN FALSE
    ELSE IF a.c = "inf" THEN TRUE
    ELSE a.v > b.v

\* f64::max and f64::min return the other operand when one is NaN.
FMax(a, b) ==
    IF a.c = "nan" THEN b ELSE IF b.c = "nan" THEN a
    ELSE IF FGt(b, a) THEN b ELSE a

FMin(a, b) ==
    IF a.c = "nan" THEN b ELSE IF b.c = "nan" THEN a
    ELSE IF FGt(a, b) THEN b ELSE a

Vec(x, y, z) == <<Fin(x), Fin(y), Fin(z)>>
VZero == Vec(0, 0, 0)
VOnes == Vec(One, One, One)

VAdd(a, b) == [i \in 1..3 |-> FAdd(a[i], b[i])]
mul_element_wise(a, b) == [i \in 1..3 |-> FMul(a[i], b[i])]
VDivScalar(a, d) == [i \in 1..3 |-> FDiv(a[i], d)]

\* math.rs
max_component(v) == FMax(FMax(v[1], v[2]), v[3])

MagnitudeNeverAboveEps(v) == FALSE

\* magnitude() > 1e-6 of a finite vector: on the fixed-point grid the
\* smallest non-zero magnitude is 1/One, far above 1e-6.
MagnitudeAboveEps(v) == \E i \in 1..3 : v[i] # FZero

(***************************************************************************)
(* material.rs.  A material is [kind, color]; color is the emitted color   *)
(* of an Emissive and the albedo of a Lambertian.                          *)
(***************************************************************************)
Light == [kind |-> "Emissive", color |-> Vec(2 * One, 2 * One, One)]
Diffuse == [kind |-> "Lambertian", color |-> Vec(One \div 2, One \div 4, 0)]
Mirror == [kind |-> "IdealReflector", color |-> VOnes]
Glass == [kind |-> "IdealDielectric", color |-> VOnes]
Mock == [kind |-> "MockMaterial", color |-> VZero]

MaterialPool == {Light, Diffuse, Mirror, Glass, Mock}

\* Material::emission: the trait default is zero.
emission(m) == IF m.kind = "Emissive" THEN m.color ELSE VZero

\* What scatter, the pdf test and cos_theta * bxdf / pdf can come to for a
\* material, over all rays, normals and sampler values:
\*   "none"   scatter returned None,
\*   "lowpdf" the pdf is at or below 1e-6,
\*   "ok"     factor is cos_theta * bxdf / pdf.
Absorbed == [kind |-> "none", factor |-> VZero]
LowPdf == [kind |-> "lowpdf", factor |-> VZero]
Scattered(f) == [kind |-> "ok", factor |-> f]

ScatterOutcomes(m) ==
    CASE m.kind = "Emissive" -> {Absorbed}
      [] m.kind = "MockMaterial" -> {Absorbed}
      [] m.kind = "Lambertian" -> {LowPdf, Scattered(m.color)}
      [] m.kind = "IdealReflector" -> {Scattered(VOnes), Scattered(VZero)}
      [] m.kind = "IdealDielectric" ->
            {LowPdf, Scattered(VOnes), Scattered(VZero),
             Scattered(Vec(2 * One, 2 * One, 2 * One))}

(***************************************************************************)
(* tracers/utils.rs and tracers/mcpt.rs                                    *)
(***************************************************************************)
\* PathVertex: position and normal play no part in the control flow.
PathVertex(beta, material) == [beta |-> beta, material |-> material]
NoMaterial == [kind |-> "None", color |-> VZero]

emissive_material(material) ==
    IF material.kind = "None" THEN FALSE
    ELSE MagnitudeAboveEps(emission(material))

\* The for loop of generate_camera_vertices: depth in 0..max_depth.
loop_continues_once_more(depth, max_depth) == depth <= max_depth

loop_continues(depth, max_depth) == depth < max_depth

\* Lines 56-60.
continue_prob_from_min_depth(depth, min_depth, beta) ==
    IF depth >= min_depth THEN FMin(max_component(beta), FOne) ELSE FOne

continue_prob(depth, min_depth, beta) ==
    IF depth > min_depth THEN FMin(max_component(beta), FOne) ELSE FOne

connect_every_vertex(camera_vertices, s, t) ==
    [panic |-> s # 0, color |-> camera_vertices[t].beta]

connect_without_stub(camera_vertices, s, t) ==
    [panic |-> FALSE,
     color |-> IF s = 0 /\ emissive_material(camera_vertices[t].material)
               THEN mul_element_wise(camera_vertices[t].beta,
                                     emission(camera_vertices[t].material))
               ELSE VZero]

\* connect: [panic |-> the "not implemented" panic, color |-> the result].
connect(camera_vertices, s, t) ==
    IF t > 1 /\ s > 0 /\ emissive_material(camera_vertices[t].material)
    THEN [panic |-> FALSE, color |-> VZero]
    ELSE IF s = 0
    THEN LET vertex == camera_vertices[t]
         IN [panic |-> FALSE,
             color |-> IF emissive_material(vertex.material)
                       THEN mul_element_wise(vertex.beta, emission(vertex.material))
                       ELSE VZero]
    ELSE [panic |-> TRUE, color |-> VZero]

trace_skips_always(s, t, max_depth) == TRUE

\* The guard of the loop body of trace (mcpt.rs:32-35).
trace_skips(s, t, max_depth) ==
    LET depth == (s + t) - 2
    IN (s = 1 /\ t = 1) \/ depth < 0 \/ depth > max_depth

Scenes == {sc \in SUBSET MaterialPool : Cardinality(sc) <= MaxObjects}

\* The values of get_1d: [0, 1) on the fixed-point grid.
UnitInterval == 0 .. One - 1

NoRoulette == [depth |-> 0 - 1, beta |-> VOnes, prob |-> FOne, u |-> FZero, ended |-> FALSE]

InitPath ==
    /\ \E sc \in Scenes, mn \in 0..MaxMinDepth, mx \in 0..MaxMaxDepth :
          pt = [pc |-> "intersect", scene |-> sc, min_depth |-> mn, max_depth |-> mx,
                depth |-> 0, path |-> <<PathVertex(VOnes, NoMaterial)>>,
                beta |-> VOnes, hit |-> NoMaterial,
                roulette |-> NoRoulette, probs |-> {},
                color |-> VZero, t |-> 1]
    /\ cfg = <<>>
    /\ tileRects = <<>>
    /\ tileState = <<>>
    /\ task = <<>>
    /\ samplers = <<>>
    /\ img = <<>>
    /\ progress = 0
    /\ renderPc = "path"
    /\ call = <<>>
    /\ pair = <<>>

\* utils.rs:35: the range 0..max_depth is exhausted.
LoopEnd ==
    /\ renderPc = "path"
    /\ pt.pc = "intersect"
    /\ ~loop_continues(pt.depth, pt.max_depth)
    /\ pt' = [pt EXCEPT !.pc = "connect"]
    /\ UNCHANGED <<call, cfg, renderVars, pair, tileRects>>

\* utils.rs:36-39: the ray misses the scene.
Miss ==
    /\ renderPc = "path"
    /\ pt.pc = "intersect"
    /\ loop_continues(pt.depth, pt.max_depth)
    /\ pt' = [pt EXCEPT !.pc = "connect"]
    /\ UNCHANGED <<call, cfg, renderVars, pair, tileRects>>

\* utils.rs:36-54: the ray hits an object of material m; the vertex is
\* pushed, and an emissive material ends the path.
Hit(m) ==
    /\ renderPc = "path"
    /\ pt.pc = "intersect"
    /\ loop_continues(pt.depth, pt.max_depth)
    /\ m \in pt.scene
    /\ pt' = [pt EXCEPT !.path = Append(@, PathVertex(pt.beta, m)),
                        !.hit = m,
                        !.pc = IF MagnitudeAboveEps(emission(m))
                               THEN "connect" ELSE "roulette"]
    /\ UNCHANGED <<call, cfg, renderVars, pair, tileRects>>

\* utils.rs:56-64: Russian roulette with the sample u.
Roulette(u) ==
    /\ renderPc = "path"
    /\ pt.pc = "roulette"
    /\ LET prob == continue_prob(pt.depth, pt.min_depth, pt.beta)
           ended == FGt(Fin(u), prob)
       IN pt' = [pt EXCEPT
                   !.roulette = [depth |-> pt.depth, beta |-> pt.beta,
                                 prob |-> prob, u |-> Fin(u), ended |-> ended],
                   !.probs = IF pt.depth >= pt.min_depth THEN @ \cup {prob} ELSE @,
                   !.beta = IF ended THEN @ ELSE VDivScalar(@, prob),
                   !.pc = IF ended THEN "connect" ELSE "scatter"]
    /\ UNCHANGED <<call, cfg, renderVars, pair, tileRects>>

\* utils.rs:66-87: scatter, the pdf test, the throughput update.
Scatter(o) ==
    /\ renderPc = "path"
    /\ pt.pc = "scatter"
    /\ o \in ScatterOutcomes(pt.hit)
    /\ IF o.kind = "ok"
       THEN pt' = [pt EXCEPT !.beta = mul_element_wise(@, o.factor),
                             !.depth = @ + 1,
                             !.pc = "intersect"]
       ELSE pt' = [pt EXCEPT !.pc = "connect"]
    /\ UNCHANGED <<call, cfg, renderVars, pair, tileRects>>

\* mcpt.rs:30-39 for one t; light_vertices is empty, so s = 0 only.
Connect ==
    /\ renderPc = "path"
    /\ pt.pc = "connect"
    /\ LET res == connect(pt.path, 0, pt.t)
           color == IF trace_skips(0, pt.t, pt.max_depth)
                    THEN pt.color ELSE VAdd(pt.color, res.color)
       IN pt' = [pt EXCEPT !.color = color,
                           !.t = @ + 1,
                           !.pc = IF pt.t = Len(pt.path) THEN "done" ELSE "connect"]
    /\ UNCHANGED <<call, cfg, renderVars, pair, tileRects>>

NextPath ==
    \/ LoopEnd
    \/ Miss
    \/ \E m \in MaterialPool : Hit(m)
    \/ \E u \in UnitInterval : Roulette(u)
    \/ \E o \in UNION {ScatterOutcomes(m) : m \in MaterialPool} : Scatter(o)
    \/ Connect

SpecPath == InitPath /\ [][NextPath]_vars

\* trace is sequential code: it keeps running until it returns.
FairSpecPath == SpecPath /\ WF_vars(NextPath)

(***************************************************************************)
(* SpecConnect: one call of connect (tracers/utils.rs:101-127) with any    *)
(* s, any t in 1..len and any camera vertices.                             *)
(***************************************************************************)
\* The render, sampler, tile and path variables play no part in a call of a
\* single function.
OnlyCall(tag) ==
    /\ cfg = <<>>
    /\ tileRects = <<>>
    /\ tileState = <<>>
    /\ task = <<>>
    /\ samplers = <<>>
    /\ img = <<>>
    /\ progress = 0
    /\ pair = <<>>
    /\ pt = <<>>
    /\ renderPc = tag

VertexBetas == {VOnes, Vec(One \div 2, One \div 4, 0)}

CameraVertices ==
    UNION {[1..n -> {PathVertex(b, m) : b \in VertexBetas,
                                        m \in MaterialPool \cup {NoMaterial}}] :
           n \in 1..MaxCameraVertices}

InitConnect ==
    /\ OnlyCall("connect")
    /\ \E cv \in CameraVertices, s \in 0..MaxLightVertices, t \in 1..MaxCameraVertices :
          /\ t <= Len(cv)
          /\ call = [pc |-> "called", camera_vertices |-> cv, s |-> s, t |-> t,
                     color |-> VZero]

\* The call returns its color or unwinds with the "not implemented" panic.
ConnectCall ==
    /\ renderPc = "connect"
    /\ call.pc = "called"
    /\ LET res == connect(call.camera_vertices, call.s, call.t)
       IN call' = [call EXCEPT !.pc = IF res.panic THEN "panicked" ELSE "returned",
                               !.color = res.color]
    /\ UNCHANGED <<cfg, renderVars, pair, tileRects, pt>>

NextConnect == ConnectCall

SpecConnect == InitConnect /\ [][NextConnect]_vars

(***************************************************************************)
(* Geometry.  Points and vectors have integer coordinates; dot and cross   *)
(* products are exact.  A value computed by a division is kept as the      *)
(* quotient of two integers and compared by cross-multiplication, so the   *)
(* tests of the intersection routines are decided exactly.  On this grid   *)
(* a determinant below 1e-6 in magnitude is zero.                          *)
(***************************************************************************)
Dot(a, b) == a[1] * b[1] + a[2] * b[2] + a[3] * b[3]
Cross(a, b) == <<a[2] * b[3] - a[3] * b[2],
                 a[3] * b[1] - a[1] * b[3],
                 a[1] * b[2] - a[2] * b[1]>>
Sub(a, b) == <<a[1] - b[1], a[2] - b[2], a[3] - b[3]>>

\* n / d in lowest terms with the sign carried by n.  d = 0 only in
\* F64_MAX (above everything) and in QNaN, for which every comparison is
\* false, as for an f64 NaN.
RECURSIVE GCD(_, _)
GCD(a, b) == IF b = 0 THEN a ELSE GCD(b, a % b)
Abs(x) == IF x < 0 THEN 0 - x ELSE x

Quot(n, d) ==
    LET g == GCD(Abs(n), Abs(d))
    IN IF g = 0 THEN [n |-> 0, d |-> 0]
       ELSE IF d < 0 THEN [n |-> (0 - n) \div g, d |-> (0 - d) \div g]
       ELSE [n |-> n \div g, d |-> d \div g]
QNaN == [n |-> 0, d |-> 0]
QInt(k) == [n |-> k, d |-> 1]
QLt(a, b) == a.n * b.d < b.n * a.d
QGt(a, b) == QLt(b, a)
QLe(a, b) == ~QLt(b, a)
QEq(a, b) == a.n * b.d = b.n * a.d
QAdd(a, b) == Quot(a.n * b.d + b.n * a.d, a.d * b.d)
QSub(a, b) == Quot(a.n * b.d - b.n * a.d, a.d * b.d)
QMul(a, b) == Quot(a.n * b.n, a.d * b.d)
QDiv(a, b) == Quot(a.n * b.d, a.d * b.n)

\* f32::MAX / f64::MAX: above every ray parameter of the model.
F64_MAX == [n |-> 1, d |-> 0]

\* The floor of the square root of a natural number.
RECURSIVE ISqrtFrom(_, _, _)
ISqrtFrom(n, lo, hi) ==
    IF lo >= hi THEN lo
    ELSE LET mid == (lo + hi + 1) \div 2
         IN IF mid * mid <= n THEN ISqrtFrom(n, mid, hi) ELSE ISqrtFrom(n, lo, mid - 1)
ISqrt(n) == ISqrtFrom(n, 0, Min(n, SqrtMax))

\* Ray: the direction is v / n (n > 0); it is a unit vector when v.v = n*n.
Ray(origin, v, n) == [origin |-> origin, direction |-> [v |-> v, n |-> n]]
UnitDirection(ray) ==
    Dot(ray.direction.v, ray.direction.v) = ray.direction.n * ray.direction.n

\* Option<HitRecord> and the Option<(t, ..)> of the *_intersect functions:
\* only t is kept, the point and the normal are functions of t.
NoHit == [hit |-> FALSE, t |-> QInt(0)]
HitAt(t) == [hit |-> TRUE, t |-> t]

\* triangle.rs: Moller-Trumbore; the window test is strict at both ends.
triangle_intersect(v0, v1, v2, ray, t_min, t_max) ==
    LET d == ray.direction.v
        e1 == Sub(v1, v0)
        e2 == Sub(v2, v0)
        h == Cross(d, e2)
        a == Dot(e1, h)
        s == Sub(ray.origin, v0)
        u == Quot(Dot(s, h), a)
        q == Cross(s, e1)
        v == Quot(Dot(d, q), a)
        t == Quot(Dot(e2, q) * ray.direction.n, a)
    IN IF a = 0 THEN NoHit
       ELSE IF QLt(u, QInt(0)) \/ QGt(u, QInt(1)) THEN NoHit
       ELSE IF QLt(v, QInt(0)) \/ QGt(QAdd(u, v), QInt(1)) THEN NoHit
       ELSE IF QGt(t, t_min) /\ QLt(t, t_max) THEN HitAt(t)
       ELSE NoHit

\* quadrilateral.rs:54-115; the bilinear coordinates (117-159) do not
\* influence whether there is a hit nor its t.
quadrilateral_intersect(v0, v1, v2, v3, ray, t_min, t_max) ==
    LET d == ray.direction.v
        e01 == Sub(v1, v0)
        e03 == Sub(v3, v0)
        p == Cross(d, e03)
        det == Dot(e01, p)
        t == Sub(ray.origin, v0)
        alpha == Quot(Dot(t, p), det)
        q == Cross(t, e01)
        beta == Quot(Dot(d, q), det)
        e23 == Sub(v3, v2)
        e21 == Sub(v1, v2)
        p_prime == Cross(d, e21)
        det_prime == Dot(e23, p_prime)
        t_prime == Sub(ray.origin, v2)
        alpha_prime == Quot(Dot(t_prime, p_prime), det_prime)
        q_prime == Cross(t_prime, e23)
        beta_prime == Quot(Dot(d, q_prime), det_prime)
        ray_t == Quot(Dot(e03, q) * ray.direction.n, det)
    IN IF det = 0 THEN NoHit
       ELSE IF QLt(alpha, QInt(0)) THEN NoHit
       ELSE IF QLt(beta, QInt(0)) THEN NoHit
       ELSE IF QGt(QAdd(alpha, beta), QInt(1))
               /\ (\/ det_prime = 0
                   \/ QLt(alpha_prime, QInt(0))
                   \/ QLt(beta_prime, QInt(0)))
            THEN NoHit
       ELSE IF QLt(ray_t, t_min) \/ QGt(ray_t, t_max) THEN NoHit
       ELSE HitAt(ray_t)

\* Ray::at, a point with quotient coordinates.
at(ray, t) ==
    [i \in 1..3 |-> QAdd(QInt(ray.origin[i]),
                         Quot(t.n * ray.direction.v[i], t.d * ray.direction.n))]

\* Sphere: [center, radius]; the HitRecord of a sphere keeps t, p and normal.
Sphere(center, radius) == [kind |-> "Sphere", center |-> center, radius |-> radius]

SphereHit(sphere, ray, t) ==
    LET point == at(ray, t)
    IN [hit |-> TRUE, t |-> t, p |-> point,
        normal |-> [i \in 1..3 |->
                      Quot(point[i].n - sphere.center[i] * point[i].d,
                           point[i].d * sphere.radius)]]

\* sphere.rs:25-54.  discriminant = num / n^2 with
\* num = (oc.v)^2 - (v.v) * c, and sqrtd = sqrt(num) / n.
intersect_analytic(sphere, ray, t_min, t_max) ==
    LET v == ray.direction.v
        n == ray.direction.n
        oc == Sub(ray.origin, sphere.center)
        a == Dot(v, v)
        half_b == Dot(oc, v)
        c == Dot(oc, oc) - sphere.radius * sphere.radius
        discriminant == half_b * half_b - a * c
        sqrtd == ISqrt(discriminant)
        near == Quot(((0 - half_b) - sqrtd) * n, a)
        far == Quot(((0 - half_b) + sqrtd) * n, a)
        out(root) == QLt(root, t_min) \/ QGt(root, t_max)
    IN IF discriminant < 0 THEN NoHit
       ELSE IF ~out(near) THEN SphereHit(sphere, ray, near)
       ELSE IF ~out(far) THEN SphereHit(sphere, ray, far)
       ELSE NoHit

\* sphere.rs:56-93.  t_ca = (l.v) / n, d2 = d2n / n^2 with
\* d2n = (l.l) n^2 - (l.v)^2, and t_hc = sqrt(r^2 n^2 - d2n) / n.
intersect_geometric(sphere, ray, t_min, t_max) ==
    LET v == ray.direction.v
        n == ray.direction.n
        l == Sub(sphere.center, ray.origin)
        t_ca == Dot(l, v)
        d2 == Dot(l, l) * n * n - t_ca * t_ca
        r2 == sphere.radius * sphere.radius * n * n
        t_hc == ISqrt(r2 - d2)
        a0 == Quot(t_ca - t_hc, n)
        a1 == Quot(t_ca + t_hc, n)
        t0 == IF QGt(a0, a1) THEN a1 ELSE a0
        t1 == IF QGt(a0, a1) THEN a0 ELSE a1
    IN IF d2 < 0 \/ d2 > r2 THEN NoHit
       ELSE IF QLt(t0, t_min)
            THEN (IF QLt(t1, t_min) THEN NoHit
                  ELSE IF QGt(t1, t_max) THEN NoHit
                  ELSE SphereHit(sphere, ray, t1))
       ELSE IF QGt(t0, t_max) THEN NoHit
       ELSE SphereHit(sphere, ray, t0)

\* Sphere::intersect (sphere.rs:95-97).
Sphere_intersect(sphere, ray, t_min, t_max) ==
    intersect_geometric(sphere, ray, t_min, t_max)

\* Plane: [point, normal]; plane.rs:23-41.
Plane(point, normal) == [kind |-> "Plane", point |-> point, normal |-> normal]

Plane_intersect_without_window(plane, ray, t_min, t_max) ==
    LET denominator == Dot(plane.normal, ray.direction.v)
        v == Sub(plane.point, ray.origin)
        distance == Quot(Dot(v, plane.normal) * ray.direction.n, denominator)
    IN IF denominator = 0 THEN NoHit ELSE HitAt(distance)

Plane_intersect(plane, ray, t_min, t_max) ==
    LET denominator == Dot(plane.normal, ray.direction.v)
        v == Sub(plane.point, ray.origin)
        distance == Quot(Dot(v, plane.normal) * ray.direction.n, denominator)
    IN IF denominator = 0 THEN NoHit
       ELSE IF QLt(distance, t_min) \/ QGt(distance, t_max) THEN NoHit
       ELSE HitAt(distance)

\* Object::intersect (objects/object.rs:48-53).
Object_intersect(object, ray, t_min, t_max) ==
    IF object.kind = "Sphere" THEN Sphere_intersect(object, ray, t_min, t_max)
    ELSE Plane_intersect(object, ray, t_min, t_max)

\* quadrilateral.rs:21-31.  With a zero cross product cos is NaN and the
\* test is false; otherwise |cos| <= 1 and the test is |cos| > 1 - 1e-3,
\* that is cos^2 > (1 - 1/K)^2 for K = 1000.  With m = |n1|^2 |n2|^2 and
\* x = m - (n1.n2)^2 >= 0 this is K^2 x < (2K - 1) m, or, divided by K,
\* K x + floor(m / K) < 2 m; the last form keeps the products small.
are_points_coplanar(v0, v1, v2, v3) ==
    LET e01 == Sub(v1, v0)
        e02 == Sub(v2, v0)
        e03 == Sub(v3, v0)
        n1 == Cross(e01, e02)
        n2 == Cross(e02, e03)
        m == Dot(n1, n1) * Dot(n2, n2)
        x == m - Dot(n1, n2) * Dot(n1, n2)
    IN /\ m # 0
       /\ CoplanarTolInv * x + (m \div CoplanarTolInv) < 2 * m

\* quadrilateral.rs:33-52.
is_quadrilateral_convex(v0, v1, v2, v3) ==
    LET e01 == Sub(v1, v0)
        e12 == Sub(v2, v1)
        e23 == Sub(v3, v2)
        e30 == Sub(v0, v3)
        cross1 == Cross(e01, e12)
        cross2 == Cross(e12, e23)
        cross3 == Cross(e23, e30)
        cross4 == Cross(e30, e01)
    IN /\ are_points_coplanar(v0, v1, v2, v3)
       /\ Dot(cross1, cross2) >= 0
       /\ Dot(cross2, cross3) >= 0
       /\ Dot(cross3, cross4) >= 0
       /\ Dot(cross4, cross1) >= 0

(***************************************************************************)
(* SpecScan: Scene::intersect (scene.rs:70-82) over a list of spheres and  *)
(* planes, and Mesh::intersect (mesh.rs:31-97) over the faces of a mesh    *)
(* that load_mesh (objects/utils.rs:87-123) has validated; one action per  *)
(* iteration of the loop.                                                  *)
(***************************************************************************)
\* All sequences over S of length 0..n without a repeated element: every
\* ordering of every subset.
Orderings(S, n) ==
    UNION {{q \in [1..k -> S] : \A i, j \in 1..k : q[i] = q[j] => i = j} : k \in 0..n}

SceneObjects ==
    {Sphere(<<0, 0, z>>, r) : z \in 0..MaxCoord, r \in 1..2}
        \cup {Plane(<<0, 0, z>>, <<0, 0, 1>>) : z \in 0..MaxCoord}

\* Unit rays towards the objects, through them off-centre, and away.
SceneRays ==
    {Ray(<<0, 0, 0>>, <<0, 0, 1>>, 1), Ray(<<1, 0, 0>>, <<0, 0, 1>>, 1),
     Ray(<<0, 0, 1>>, <<0, 0, 0 - 1>>, 1), Ray(<<0, 0, 0>>, <<3, 0, 4>>, 5)}

scene_t_min == Quot(1, SceneEpsilonInv)

\* The mesh vertices: a square at each layer z = 1 .. MaxLayer + 1; the
\* vertices of layer k have the indices 4k+1 .. 4k+4.
MeshVertices ==
    [i \in 1 .. 4 * (MaxLayer + 1) |->
        LET k == (i - 1) \div 4
            c == (i - 1) % 4
        IN <<IF c \in {0, 3} THEN 0 - 2 ELSE 2,
             IF c \in {0, 1} THEN 0 - 2 ELSE 2,
             k + 1>>]

\* Faces of a .ply file: the two triangles and the quadrilateral of every
\* layer, a face of 2 indices, a pentagon, a self-crossing quadrilateral
\* and a quadrilateral with a vertex on another layer.
MeshFaces ==
    UNION {{<<4 * k + 1, 4 * k + 2, 4 * k + 3>>,
            <<4 * k + 1, 4 * k + 3, 4 * k + 4>>,
            <<4 * k + 1, 4 * k + 2, 4 * k + 3, 4 * k + 4>>} : k \in 0..MaxLayer}
        \cup {<<1, 2>>, <<1, 2, 3, 4, 1>>, <<1, 3, 2, 4>>,
              <<1, 2, 3, 4 * (MaxLayer + 1)>>}

MeshRays ==
    {Ray(<<0, 0, 0>>, <<0, 0, 1>>, 1), Ray(<<1, 0 - 1, 0>>, <<0, 0, 1>>, 1),
     Ray(<<0 - 1, 1, 0>>, <<0, 0, 1>>, 1), Ray(<<3, 0, 0>>, <<0, 0, 1>>, 1)}

MeshWindows == {<<QInt(0), F64_MAX>>, <<QInt(1), QInt(2)>>, <<QInt(0), QInt(1)>>}

\* The validation loop of load_mesh: TRUE when it returns Ok(mesh).
load_mesh(vertices, indices) ==
    \A f \in 1..Len(indices) :
        LET face == indices[f]
        IN IF Len(face) < 3 THEN FALSE
           ELSE IF Len(face) = 3 THEN TRUE
           ELSE IF Len(face) = 4
                THEN /\ are_points_coplanar(vertices[face[1]], vertices[face[2]],
                                            vertices[face[3]], vertices[face[4]])
                     /\ is_quadrilateral_convex(vertices[face[1]], vertices[face[2]],
                                                vertices[face[3]], vertices[face[4]])
           ELSE TRUE

\* One iteration of the loop of Scene::intersect.
scene_step_keeps_bound(st, object, ray) ==
    LET temp_rec == Object_intersect(object, ray, scene_t_min, F64_MAX)
    IN IF temp_rec.hit
       THEN [closest_so_far |-> st.closest_so_far, hit_record |-> temp_rec,
             panic |-> FALSE]
       ELSE st

scene_step(st, object, ray) ==
    LET temp_rec == Object_intersect(object, ray, scene_t_min, st.closest_so_far)
    IN IF temp_rec.hit
       THEN [closest_so_far |-> temp_rec.t, hit_record |-> temp_rec, panic |-> FALSE]
       ELSE st

\* The match on indices.len() of Mesh::intersect (mesh.rs:36-84).
face_intersect(vertices, face, ray, t_min, t_max) ==
    IF Len(face) = 3
    THEN triangle_intersect(vertices[face[1]], vertices[face[2]], vertices[face[3]],
                            ray, t_min, t_max)
    ELSE quadrilateral_intersect(vertices[face[1]], vertices[face[2]],
                                 vertices[face[3]], vertices[face[4]],
                                 ray, t_min, t_max)

face_supported(face) == Len(face) \in {3, 4}

\* One iteration of the loop of Mesh::intersect.
mesh_step(st, vertices, face, ray, t_min) ==
    IF ~face_supported(face)
    THEN [st EXCEPT !.panic = TRUE]
    ELSE LET rec == face_intersect(vertices, face, ray, t_min, st.closest_so_far)
         IN IF rec.hit
            THEN [closest_so_far |-> rec.t, hit_record |-> rec, panic |-> FALSE]
            ELSE st

ScanStart(t_max) == [closest_so_far |-> t_max, hit_record |-> NoHit, panic |-> FALSE]

InitScan ==
    /\ OnlyCall("scan")
    /\ \/ \E objects \in Orderings(SceneObjects, MaxObjects), ray \in SceneRays :
             call = [pc |-> "scan", kind |-> "scene", objects |-> objects,
                     vertices |-> <<>>, ray |-> ray,
                     t_min |-> scene_t_min, t_max |-> F64_MAX,
                     i |-> 1, st |-> ScanStart(F64_MAX)]
       \/ \E indices \in Orderings(MeshFaces, MaxFaces), ray \in MeshRays,
             w \in MeshWindows :
             call = [pc |-> "load", kind |-> "mesh", objects |-> indices,
                     vertices |-> MeshVertices, ray |-> ray,
                     t_min |-> w[1], t_max |-> w[2],
                     i |-> 1, st |-> ScanStart(w[2])]

\* MeshConfig::to_instance: load_mesh(..).unwrap() before any ray is traced.
LoadMesh ==
    /\ renderPc = "scan"
    /\ call.pc = "load"
    /\ call' = [call EXCEPT !.pc = IF load_mesh(call.vertices, call.objects)
                                   THEN "scan" ELSE "rejected"]
    /\ UNCHANGED <<cfg, renderVars, pair, tileRects, pt>>

SceneStep ==
    /\ renderPc = "scan"
    /\ call.pc = "scan"
    /\ call.kind = "scene"
    /\ call.i <= Len(call.objects)
    /\ call' = [call EXCEPT !.st = scene_step(call.st, call.objects[call.i], call.ray),
                            !.i = @ + 1]
    /\ UNCHANGED <<cfg, renderVars, pair, tileRects, pt>>

MeshStep ==
    /\ renderPc = "scan"
    /\ call.pc = "scan"
    /\ call.kind = "mesh"
    /\ call.i <= Len(call.objects)
    /\ LET st == mesh_step(call.st, call.vertices, call.objects[call.i],
                           call.ray, call.t_min)
       IN call' = [call EXCEPT !.st = st,
                               !.i = @ + 1,
                               !.pc = IF st.panic THEN "panicked" ELSE "scan"]
    /\ UNCHANGED <<cfg, renderVars, pair, tileRects, pt>>

\* The loop is over: hit_record is returned.
ScanReturn ==
    /\ renderPc = "scan"
    /\ call.pc = "scan"
    /\ call.i > Len(call.objects)
    /\ call' = [call EXCEPT !.pc = "returned"]
    /\ UNCHANGED <<cfg, renderVars, pair, tileRects, pt>>

NextScan == LoadMesh \/ SceneStep \/ MeshStep \/ ScanReturn

SpecScan == InitScan /\ [][NextScan]_vars

(***************************************************************************)
(* SpecShape: a shape is built from its configuration (to_instance, with   *)
(* no transform) and asked once for its intersection with a ray in a       *)
(* window.  For a sphere both solvers are run, for a quadrilateral also    *)
(* triangle_intersect on the two triangles of its diagonal v0-v2.          *)
(***************************************************************************)
Triangle(v0, v1, v2) == [kind |-> "Triangle", vertices |-> <<v0, v1, v2>>]
Quadrilateral(v0, v1, v2, v3) == [kind |-> "Quadrilateral", vertices |-> <<v0, v1, v2, v3>>]

\* Triangle::intersect (triangle.rs:109-131) and Quadrilateral::intersect
\* (quadrilateral.rs:163-187) keep the t of the *_intersect function.
Triangle_intersect(triangle, ray, t_min, t_max) ==
    triangle_intersect(triangle.vertices[1], triangle.vertices[2], triangle.vertices[3],
                       ray, t_min, t_max)

Quadrilateral_intersect(quad, ray, t_min, t_max) ==
    quadrilateral_intersect(quad.vertices[1], quad.vertices[2], quad.vertices[3],
                            quad.vertices[4], ray, t_min, t_max)

\* Shape::intersect (shapes/shape.rs:41-49), without Mesh.
Shape_intersect(shape, ray, t_min, t_max) ==
    CASE shape.kind = "Sphere" -> Sphere_intersect(shape, ray, t_min, t_max)
      [] shape.kind = "Plane" -> Plane_intersect(shape, ray, t_min, t_max)
      [] shape.kind = "Triangle" -> Triangle_intersect(shape, ray, t_min, t_max)
      [] shape.kind = "Quadrilateral" -> Quadrilateral_intersect(shape, ray, t_min, t_max)

\* QuadrilateralConfig::to_instance (quadrilateral.rs:201-213): the four
\* points are taken as they are and transformed; nothing is tested.  The
\* other *Config::to_instance functions do the same.
to_instance(config) == [ok |-> TRUE, shape |-> config]

\* The nearer of the hits of the two triangles, as in
\* test_quadrilateral_intersection (quadrilateral.rs:292-305).
hit_triangle(hit_triangle_0, hit_triangle_1) ==
    IF hit_triangle_0.hit /\ hit_triangle_1.hit
    THEN (IF QLt(hit_triangle_0.t, hit_triangle_1.t) THEN hit_triangle_0
          ELSE hit_triangle_1)
    ELSE IF hit_triangle_0.hit THEN hit_triangle_0
    ELSE hit_triangle_1

Grid == (0 - MaxGrid) .. MaxGrid

ShapeConfigs ==
    {Sphere(<<0, 0, z>>, r) : z \in 0..MaxCoord, r \in 1..2}
        \cup {Plane(<<0, 0, z>>, n) : z \in 0..MaxCoord,
                                      n \in {<<0, 0, 1>>, <<0, 0, 0 - 1>>, <<1, 0, 0>>}}
        \cup {Triangle(<<0 - 1, 0, 1>>, <<0 - 1, 0 - 1, 1>>, <<x, y, z>>) :
                 x \in Grid, y \in Grid, z \in 1..2}
        \cup {Quadrilateral(<<0 - 1, 0, 1>>, <<0 - 1, 0 - 1, 1>>, <<x2, y2, 1>>, <<x3, y3, z3>>) :
                 x2 \in Grid, y2 \in Grid, x3 \in Grid, y3 \in Grid, z3 \in 1..2}

\* Rays with unit directions (along z, slanted 3-4-5, along x) and with
\* directions that are not unit vectors.
ShapeRays ==
    {Ray(<<x, y, 0>>, d[1], d[2]) :
        x \in {0 - 1, 0}, y \in {0, 1},
        d \in {<<<<0, 0, 1>>, 1>>, <<<<3, 0, 4>>, 5>>, <<<<1, 0, 0>>, 1>>,
               <<<<0, 0, 2>>, 1>>, <<<<0, 0, 1>>, 2>>}}

ShapeWindows ==
    {<<scene_t_min, F64_MAX>>}
        \cup {<<QInt(a), QInt(b)>> : a \in 0..1, b \in 1..MaxWindow}

InitShape ==
    /\ OnlyCall("shape")
    /\ \E config \in ShapeConfigs, ray \in ShapeRays, w \in ShapeWindows :
          call = [pc |-> "config", config |-> config, shape |-> config, ray |-> ray,
                  t_min |-> w[1], t_max |-> w[2],
                  result |-> NoHit, analytic |-> NoHit,
                  hit_triangle_0 |-> NoHit, hit_triangle_1 |-> NoHit]

\* ShapeConfig::to_shape (shapes/shape.rs:27-37).
ToInstance ==
    /\ renderPc = "shape"
    /\ call.pc = "config"
    /\ LET r == to_instance(call.config)
       IN call' = [call EXCEPT !.pc = IF r.ok THEN "built" ELSE "rejected",
                               !.shape = r.shape]
    /\ UNCHANGED <<cfg, renderVars, pair, tileRects, pt>>

\* Sphere: intersect (the geometric solver) and intersect_analytic.
SphereIntersect ==
    /\ renderPc = "shape"
    /\ call.pc = "built"
    /\ call.shape.kind = "Sphere"
    /\ call' = [call EXCEPT
                  !.pc = "done",
                  !.result = Shape_intersect(call.shape, call.ray, call.t_min, call.t_max),
                  !.analytic = intersect_analytic(call.shape, call.ray,
                                                  call.t_min, call.t_max)]
    /\ UNCHANGED <<cfg, renderVars, pair, tileRects, pt>>

PlaneIntersect ==
    /\ renderPc = "shape"
    /\ call.pc = "built"
    /\ call.shape.kind = "Plane"
    /\ call' = [call EXCEPT
                  !.pc = "done",
                  !.result = Shape_intersect(call.shape, call.ray, call.t_min, call.t_max)]
    /\ UNCHANGED <<cfg, renderVars, pair, tileRects, pt>>

TriangleIntersect ==
    /\ renderPc = "shape"
    /\ call.pc = "built"
    /\ call.shape.kind = "Triangle"
    /\ call' = [call EXCEPT
                  !.pc = "done",
                  !.result = Shape_intersect(call.shape, call.ray, call.t_min, call.t_max)]
    /\ UNCHANGED <<cfg, renderVars, pair, tileRects, pt>>

\* Quadrilateral: intersect, and triangle_intersect on (v0, v1, v2) and
\* (v0, v2, v3).
QuadrilateralIntersect ==
    /\ renderPc = "shape"
    /\ call.pc = "built"
    /\ call.shape.kind = "Quadrilateral"
    /\ LET v == call.shape.vertices
       IN call' = [call EXCEPT
                     !.pc = "done",
                     !.result = Shape_intersect(call.shape, call.ray,
                                                call.t_min, call.t_max),
                     !.hit_triangle_0 = triangle_intersect(v[1], v[2], v[3], call.ray,
                                                           call.t_min, call.t_max),
                     !.hit_triangle_1 = triangle_intersect(v[1], v[3], v[4], call.ray,
                                                           call.t_min, call.t_max)]
    /\ UNCHANGED <<cfg, renderVars, pair, tileRects, pt>>

NextShape ==
    \/ ToInstance
    \/ SphereIntersect
    \/ PlaneIntersect
    \/ TriangleIntersect
    \/ QuadrilateralIntersect

SpecShape == InitShape /\ [][NextShape]_vars

(***************************************************************************)
(* SpecDielectric: one call of IdealDielectric::scatter                    *)
(* (material.rs:187-229) with fresnel and refract (math.rs:137-160).       *)
(* The unit direction of the incoming ray and the unit normal enter only   *)
(* through their dot product; the result keeps which ray was returned.     *)
(***************************************************************************)
\* f64 rounding: a quotient rounded down to a multiple of 1 / SqrtScale.
\* It is applied to the square root and to the two Fresnel amplitudes;
\* the sines of the total-reflection tests are exact.
QRound(a) == IF a.d = 0 THEN a ELSE Quot((a.n * SqrtScale) \div a.d, SqrtScale)

\* f64::sqrt: NaN for a negative or NaN argument.
QSqrt(a) ==
    IF a.d = 0 \/ a.n < 0 THEN QNaN
    ELSE Quot(ISqrt((a.n * SqrtScale * SqrtScale) \div a.d), SqrtScale)

\* math.rs:137-146: None when sin2_theta2 > 1.
refract(cos_theta1, eta) ==
    LET sin2_theta1 == QSub(QInt(1), QMul(cos_theta1, cos_theta1))
        sin2_theta2 == QMul(QMul(sin2_theta1, eta), eta)
    IN [none |-> QGt(sin2_theta2, QInt(1))]

fresnel_without_total_reflection(cos_i, eta_i, eta_t) ==
    LET sin2_t == QMul(QMul(QDiv(eta_i, eta_t), QDiv(eta_i, eta_t)),
                       QSub(QInt(1), QMul(cos_i, cos_i)))
        cos_t == QSqrt(QSub(QInt(1), sin2_t))
        r_ortho == QRound(QDiv(QSub(QMul(eta_t, cos_i), QMul(eta_i, cos_t)),
                        QAdd(QMul(eta_t, cos_i), QMul(eta_i, cos_t))))
        r_parallel == QRound(QDiv(QSub(QMul(eta_i, cos_i), QMul(eta_t, cos_t)),
                           QAdd(QMul(eta_i, cos_i), QMul(eta_t, cos_t))))
    IN QDiv(QAdd(QMul(r_ortho, r_ortho), QMul(r_parallel, r_parallel)), QInt(2))

\* math.rs:148-160.
fresnel(cos_i, eta_i, eta_t) ==
    LET sin2_t == QMul(QMul(QDiv(eta_i, eta_t), QDiv(eta_i, eta_t)),
                       QSub(QInt(1), QMul(cos_i, cos_i)))
        cos_t == QSqrt(QSub(QInt(1), sin2_t))
        r_ortho == QRound(QDiv(QSub(QMul(eta_t, cos_i), QMul(eta_i, cos_t)),
                        QAdd(QMul(eta_t, cos_i), QMul(eta_i, cos_t))))
        r_parallel == QRound(QDiv(QSub(QMul(eta_i, cos_i), QMul(eta_t, cos_t)),
                           QAdd(QMul(eta_i, cos_i), QMul(eta_t, cos_t))))
    IN IF QGt(sin2_t, QInt(1)) THEN QInt(1)
       ELSE QDiv(QAdd(QMul(r_ortho, r_ortho), QMul(r_parallel, r_parallel)), QInt(2))

\* IdealDielectric::scatter; dot is ray_in.direction.dot(normal) for the
\* unit direction, r the value of rng.gen().
IdealDielectric_scatter(ior, dot, r) ==
    LET inside == QGt(dot, QInt(0))
        eta_i == IF inside THEN ior ELSE QInt(1)
        eta_t == IF inside THEN QInt(1) ELSE ior
        eta == QDiv(eta_i, eta_t)
        cos_theta == IF inside THEN dot ELSE QSub(QInt(0), dot)
        reflectance == fresnel(cos_theta, eta_i, eta_t)
    IN IF QGt(reflectance, QInt(1)) THEN [kind |-> "panic", pdf |-> reflectance]
       ELSE IF QLt(r, reflectance) THEN [kind |-> "reflected", pdf |-> reflectance]
       ELSE IF refract(cos_theta, eta).none THEN [kind |-> "none", pdf |-> QInt(0)]
       ELSE [kind |-> "refracted", pdf |-> QSub(QInt(1), reflectance)]

\* Refraction is impossible for the incoming ray: refract returns None.
total_internal_reflection(ior, dot) ==
    IF QGt(dot, QInt(0)) THEN refract(dot, ior).none
    ELSE refract(QSub(QInt(0), dot), QDiv(QInt(1), ior)).none

Iors == {QInt(1), Quot(3, 2), QInt(2), Quot(2, 3)}

InitDielectric ==
    /\ OnlyCall("dielectric")
    /\ \E ior \in Iors, k \in (0 - MaxCos) .. MaxCos, j \in 0 .. (MaxCos - 1) :
          call = [pc |-> "called", ior |-> ior, dot |-> Quot(k, MaxCos),
                  r |-> Quot(j, MaxCos),
                  result |-> [kind |-> "none", pdf |-> QInt(0)]]

DielectricScatter ==
    /\ renderPc = "dielectric"
    /\ call.pc = "called"
    /\ call' = [call EXCEPT !.pc = "done",
                            !.result = IdealDielectric_scatter(call.ior, call.dot, call.r)]
    /\ UNCHANGED <<cfg, renderVars, pair, tileRects, pt>>

NextDielectric == DielectricScatter

SpecDielectric == InitDielectric /\ [][NextDielectric]_vars

(***************************************************************************)
(* SpecStrata: StratifiedSampler::new and the generate_samples call of     *)
(* start_pixel (sampler.rs:81-133), for one 1-D dimension or one 2-D       *)
(* dimension of the tables; every dimension is filled by the same loop.    *)
(* One action per loop iteration and one for the shuffle.                  *)
(*                                                                         *)
(* rng.gen::<f64>() is a multiple of 2^-53 in [0, 1); the model keeps      *)
(* JitterBits bits instead of 53.  i as f64 + rng.gen() is an f64          *)
(* addition: its result is rounded to the nearest value with that many     *)
(* significant bits, ties to even.                                         *)
(***************************************************************************)
RECURSIVE Pow2(_)
Pow2(e) == IF e = 0 THEN 1 ELSE 2 * Pow2(e - 1)

\* The values of rng.gen::<f64>() in units of 2^-JitterBits: the least,
\* the middle and the greatest.
Jitters == {0, Pow2(JitterBits - 1), Pow2(JitterBits) - 1}

\* The spacing of the floating-point numbers around i >= 1, in the same
\* units: 2 for i = 1, 4 for i in 2..3, 8 for i in 4..7.
RECURSIVE Spacing(_)
Spacing(i) == IF i <= 1 THEN 2 ELSE 2 * Spacing(i \div 2)

\* s rounded to the nearest multiple of q, ties to the even multiple.
RoundToEven(s, q) ==
    LET lo == (s \div q) * q
        hi == lo + q
    IN IF s - lo < hi - s THEN lo
       ELSE IF s - lo > hi - s THEN hi
       ELSE IF (lo \div q) % 2 = 0 THEN lo ELSE hi

\* (cell as f64 + rng.gen::<f64>()) / strata as f64, for the jitter k;
\* cell = 0 adds exactly, and the division is kept exact.
jittered(cell, k, strata) ==
    LET sum == IF cell = 0 THEN k
               ELSE RoundToEven(cell * Pow2(JitterBits) + k, Spacing(cell))
    IN Quot(sum, Pow2(JitterBits) * strata)

\* The permutations of 1..n: the outcomes of slice.shuffle.
Perms(n) == {f \in [1..n -> 1..n] : \A a, b \in 1..n : f[a] = f[b] => a = b}

\* x_strata, y_strata of a StratifiedSampler that new accepts, with
\* samples_per_pixel = x_strata * y_strata.
StrataConfigs ==
    {c \in (1..MaxStrataSamples) \X (1..MaxStrataSamples) :
        c[1] * c[2] <= MaxStrataSamples}

InitStrata ==
    /\ OnlyCall("strata")
    /\ \E c \in StrataConfigs, kind \in {"1d", "2d"} :
          call = [pc |-> "fill", kind |-> kind,
                  x_strata |-> c[1], y_strata |-> c[2],
                  samples_per_pixel |-> c[1] * c[2],
                  dim_samples |-> [i \in 1 .. c[1] * c[2] |->
                                     IF kind = "1d" THEN QInt(0)
                                     ELSE <<QInt(0), QInt(0)>>],
                  generated |-> <<>>,
                  i |-> 0]

\* sampler.rs:107-109: dim_samples[i] of a 1-D dimension.
Fill1d(k) ==
    /\ renderPc = "strata"
    /\ call.pc = "fill"
    /\ call.kind = "1d"
    /\ call.i < call.samples_per_pixel
    /\ call' = [call EXCEPT
                  !.dim_samples[call.i + 1] = jittered(call.i, k, call.samples_per_pixel),
                  !.i = @ + 1]
    /\ UNCHANGED <<cfg, renderVars, pair, tileRects, pt>>

\* sampler.rs:114-122: dim_samples[i] of a 2-D dimension.
Fill2d(kx, ky) ==
    /\ renderPc = "strata"
    /\ call.pc = "fill"
    /\ call.kind = "2d"
    /\ call.i < call.samples_per_pixel
    /\ LET x_cell == call.i % call.x_strata
           y_cell == call.i \div call.x_strata
           x == jittered(x_cell, kx, call.x_strata)
           y == jittered(y_cell, ky, call.y_strata)
       IN call' = [call EXCEPT !.dim_samples[call.i + 1] = <<x, y>>,
                               !.i = @ + 1]
    /\ UNCHANGED <<cfg, renderVars, pair, tileRects, pt>>

\* sampler.rs:110 and 123: dim_samples.shuffle(&mut self.rng).
Shuffle(perm) ==
    /\ renderPc = "strata"
    /\ call.pc = "fill"
    /\ call.i = call.samples_per_pixel
    /\ perm \in Perms(call.samples_per_pixel)
    /\ call' = [call EXCEPT
                  !.generated = call.dim_samples,
                  !.dim_samples = [i \in 1..call.samples_per_pixel |->
                                      call.dim_samples[perm[i]]],
                  !.pc = "done"]
    /\ UNCHANGED <<cfg, renderVars, pair, tileRects, pt>>

NextStrata ==
    \/ \E k \in Jitters : Fill1d(k)
    \/ \E kx \in Jitters, ky \in Jitters : Fill2d(kx, ky)
    \/ \E perm \in UNION {Perms(n) : n \in 1..MaxStrataSamples} :
          Shuffle(perm)

SpecStrata == InitStrata /\ [][NextStrata]_vars

(***************************************************************************)
(* SpecPost: one call of post_process (renderer.rs:50-70).  A color is the *)
(* input color with the list of the functions applied to it, so that two   *)
(* colors are equal only when the same functions were applied in the same  *)
(* order: reinhard, powf(1 / 2.2) and the element-wise product do not      *)
(* commute.                                                                *)
(***************************************************************************)
MaxInputColors == 4     \* the input colors of SpecPost

NoBalance == 0
Applied(color, f, balance) ==
    [color EXCEPT !.applied = Append(@, [f |-> f, balance |-> balance])]

reinhard_tone_mapping(color) == Applied(color, "reinhard_tone_mapping", NoBalance)
gamma_correction(color) == Applied(color, "gamma_correction", NoBalance)
white_balance(color, balance) == Applied(color, "white_balance", balance)

\* renderer.rs:51-58.
tone_mapping_of(color, config) ==
    IF config.tone_mapping # "None"
    THEN (IF config.tone_mapping = "reinhard" THEN reinhard_tone_mapping(color)
          ELSE color)
    ELSE color

\* renderer.rs:59-63.
gamma_correction_of(color, config) ==
    IF config.gamma_correction THEN gamma_correction(color) ELSE color

\* renderer.rs:64-68.
white_balance_of(color, config) ==
    IF config.white_balance # NoBalance THEN white_balance(color, config.white_balance)
    ELSE color

post_process_gamma_last(color, config) ==
    gamma_correction_of(white_balance_of(tone_mapping_of(color, config), config), config)

post_process(color, config) ==
    white_balance_of(gamma_correction_of(tone_mapping_of(color, config), config), config)

\* PostProcessingConfig: tone_mapping is None, "reinhard" or another
\* string; white_balance is None or one of two balances.
PostProcessingConfigs ==
    [tone_mapping : {"None", "reinhard", "aces"},
     gamma_correction : BOOLEAN,
     white_balance : {NoBalance, 1, 2}]

InitPost ==
    /\ OnlyCall("post")
    /\ \E config \in PostProcessingConfigs, c \in 1..MaxInputColors :
          call = [pc |-> "call", config |-> config,
                  color |-> [input |-> c, applied |-> <<>>],
                  result |-> [input |-> c, applied |-> <<>>]]

PostProcess ==
    /\ renderPc = "post"
    /\ call.pc = "call"
    /\ call' = [call EXCEPT !.pc = "done",
                            !.result = post_process(call.color, call.config)]
    /\ UNCHANGED <<cfg, renderVars, pair, tileRects, pt>>

NextPost == PostProcess

SpecPost == InitPost /\ [][NextPost]_vars

(***************************************************************************)
(* SpecDraws: a StratifiedSampler with its tables, under any sequence of   *)
(* start_pixel, get_1d, get_2d and start_next_sample (sampler.rs:81-161).  *)
(* A table entry is named by its table, dimension and sample index; which  *)
(* number generate_samples stores there is the subject of SpecStrata.      *)
(* x_strata, y_strata and samples_per_pixel are usize and may be 0.        *)
(***************************************************************************)
MaxDraws == 6           \* get_1d / get_2d calls between two resets, in SpecDraws

ZeroSample == <<"zero", 0, 0>>       \* 0.0 and (0.0, 0.0) of vec![...] in new
FreshSample == <<"fresh", 0, 0>>     \* rng.gen()
NoSample == <<"none", 0, 0>>

\* sampler.rs:93-102, with the tables.
StratifiedSampler_with_tables(spp, x_strata, y_strata, dimensions) ==
    [kind |-> "Stratified", samples_per_pixel |-> spp,
     x_strata |-> x_strata, y_strata |-> y_strata, dimensions |-> dimensions,
     current_sample_index |-> 0, current_dimension |-> 0, users |-> {},
     samples_1d |-> [d \in 1..dimensions |-> [i \in 1..spp |-> ZeroSample]],
     samples_2d |-> [d \in 1..dimensions |-> [i \in 1..spp |-> ZeroSample]]]

\* generate_samples: every entry of both tables is overwritten.
generate_samples(s) ==
    [s EXCEPT
       !.samples_1d = [d \in 1..Len(s.samples_1d) |->
                          [i \in 1..s.samples_per_pixel |-> <<"samples_1d", d - 1, i - 1>>]],
       !.samples_2d = [d \in 1..Len(s.samples_2d) |->
                          [i \in 1..s.samples_per_pixel |-> <<"samples_2d", d - 1, i - 1>>]]]

\* get_1d / get_2d on the table: [panic, sample]; the index expression
\* table[current_dimension][current_sample_index] panics out of bounds.
table_get(s, table) ==
    IF s.current_dimension >= Len(table)
    THEN [panic |-> FALSE, sample |-> FreshSample]
    ELSE IF s.current_sample_index >= Len(table[s.current_dimension + 1])
    THEN [panic |-> TRUE, sample |-> NoSample]
    ELSE [panic |-> FALSE,
          sample |-> table[s.current_dimension + 1][s.current_sample_index + 1]]

\* samples_per_pixel - 1 in usize: with samples_per_pixel = 0 the
\* subtraction overflows, which panics in a build with overflow checks and
\* wraps to usize::MAX without them.
start_next_sample_outcomes(s) ==
    IF s.samples_per_pixel = 0
    THEN {[panic |-> TRUE, s |-> s, r |-> FALSE],
          [panic |-> FALSE,
           s |-> [s EXCEPT !.current_sample_index = @ + 1, !.current_dimension = 0],
           r |-> TRUE]}
    ELSE {[panic |-> FALSE] @@ Stratified_start_next_sample(s)}

\* The configurations that StratifiedSampler::new accepts.
DrawConfigs ==
    {c \in (0..MaxStrataSamples) \X (0..MaxStrataSamples) :
        c[1] * c[2] <= MaxStrataSamples}

InitDraws ==
    /\ OnlyCall("draws")
    /\ \E c \in DrawConfigs :
          /\ StratifiedSampler_accepts(c[1] * c[2], c[1], c[2])
          /\ call = [sampler |-> StratifiedSampler_with_tables(c[1] * c[2], c[1], c[2],
                                                               StratifiedDimensions),
                     op |-> "new", ret |-> NoSample, result |-> FALSE,
                     draws |-> 0, panicked |-> FALSE, started |-> FALSE]

DrawsStartPixel ==
    /\ renderPc = "draws"
    /\ ~call.panicked
    /\ call' = [call EXCEPT
                  !.sampler = generate_samples(Stratified_start_pixel(@)),
                  !.op = "start_pixel", !.ret = NoSample,
                  !.draws = 0, !.started = TRUE]
    /\ UNCHANGED <<cfg, renderVars, pair, tileRects, pt>>

DrawsGet(op) ==
    /\ renderPc = "draws"
    /\ ~call.panicked
    /\ call.draws < MaxDraws
    /\ LET s == call.sampler
           r == table_get(s, IF op = "get_1d" THEN s.samples_1d ELSE s.samples_2d)
       IN call' = [call EXCEPT
                     !.sampler = IF r.panic THEN s
                                 ELSE IF op = "get_1d" THEN get_1d(s) ELSE get_2d(s),
                     !.op = op, !.ret = r.sample,
                     !.panicked = r.panic,
                     !.draws = @ + 1]
    /\ UNCHANGED <<cfg, renderVars, pair, tileRects, pt>>

DrawsGet1d == DrawsGet("get_1d")

DrawsGet2d == DrawsGet("get_2d")

DrawsNextSample ==
    /\ renderPc = "draws"
    /\ ~call.panicked
    /\ call.sampler.current_sample_index <= MaxStrataSamples
    /\ \E o \in start_next_sample_outcomes(call.sampler) :
          call' = [call EXCEPT
                     !.sampler = o.s,
                     !.op = "start_next_sample", !.ret = NoSample,
                     !.result = o.r,
                     !.panicked = o.panic,
                     !.draws = IF o.r THEN 0 ELSE @]
    /\ UNCHANGED <<cfg, renderVars, pair, tileRects, pt>>

NextDraws == DrawsStartPixel \/ DrawsGet1d \/ DrawsGet2d \/ DrawsNextSample

SpecDraws == InitDraws /\ [][NextDraws]_vars

(***************************************************************************)
(* SpecTransform: Plane::transform (shapes/plane.rs:43-48) and             *)
(* Mesh::transform (shapes/mesh.rs:99-114) with the helpers of math.rs.    *)
(* A Matrix4D is affine: three rows of the linear part and a translation,  *)
(* the last row being (0, 0, 0, 1).  A normalized vector is kept as the    *)
(* shortest integer vector of its direction.                               *)
(***************************************************************************)
MatVec(rows, v) == <<Dot(rows[1], v), Dot(rows[2], v), Dot(rows[3], v)>>

\* math.rs:108-110: m * (p, 1), divided by w = 1.
transform_point3(m, p) ==
    LET u == MatVec(m.rows, p)
    IN <<u[1] + m.translation[1], u[2] + m.translation[2], u[3] + m.translation[3]>>

\* math.rs:112-115: m * (v, 0).
transform_vec3(m, v) == MatVec(m.rows, v)

\* InnerSpace::normalize: the direction of v.
normalize(v) ==
    LET g == GCD(GCD(Abs(v[1]), Abs(v[2])), Abs(v[3]))
    IN IF g = 0 THEN v ELSE <<v[1] \div g, v[2] \div g, v[3] \div g>>

Plane_transform(plane, transform) ==
    Plane(transform_point3(transform, plane.point),
          normalize(transform_vec3(transform, plane.normal)))

Mesh_transform(mesh, transform) ==
    [kind |-> "Mesh",
     vertices |-> [i \in 1..Len(mesh.vertices) |->
                      transform_point3(transform, mesh.vertices[i])],
     normals |-> [i \in 1..Len(mesh.normals) |->
                     normalize(transform_vec3(transform, mesh.normals[i]))],
     indices |-> mesh.indices]

\* Invertible matrices: the identity, a translation, a uniform scaling, a
\* rotation about z, scalings that differ between the axes, a shear.
Matrices ==
    {[rows |-> r, translation |-> t] :
        r \in {<<<<1, 0, 0>>, <<0, 1, 0>>, <<0, 0, 1>>>>,
               <<<<2, 0, 0>>, <<0, 2, 0>>, <<0, 0, 2>>>>,
               <<<<0, 0 - 1, 0>>, <<1, 0, 0>>, <<0, 0, 1>>>>,
               <<<<MaxScale, 0, 0>>, <<0, 1, 0>>, <<0, 0, 1>>>>,
               <<<<1, 0, 0>>, <<0, 1, 0>>, <<0, 0, MaxScale>>>>,
               <<<<1, 1, 0>>, <<0, 1, 0>>, <<0, 0, 1>>>>},
        t \in {<<0, 0, 0>>, <<1, 2, 3>>}}

\* Planes through a grid point, and one-triangle meshes with the face
\* normal stored for every vertex.
TransformShapes ==
    {Plane(<<0, 0, z>>, normalize(n)) :
        z \in 0..1, n \in {<<0, 0, 1>>, <<1, 0, 0>>, <<1, 1, 0>>, <<1, 0, 1>>, <<1, 1, 1>>}}
    \cup {[kind |-> "Mesh", vertices |-> <<a, b, c>>,
           normals |-> [i \in 1..3 |-> normalize(Cross(Sub(b, a), Sub(c, a)))],
           indices |-> <<<<1, 2, 3>>>>] :
             a \in {<<0, 0, 0>>}, b \in {<<1, 0, 0>>, <<1, 0 - 1, 0>>, <<0, 1, 1>>},
             c \in {<<0, 1, 0>>, <<0, 0, 1>>, <<1, 1, 0 - 1>>}}

InitTransform ==
    /\ OnlyCall("transform")
    /\ \E shape \in TransformShapes, m \in Matrices :
          call = [pc |-> "call", shape |-> shape, transform |-> m, result |-> shape]

PlaneTransform ==
    /\ renderPc = "transform"
    /\ call.pc = "call"
    /\ call.shape.kind = "Plane"
    /\ call' = [call EXCEPT !.pc = "done",
                            !.result = Plane_transform(call.shape, call.transform)]
    /\ UNCHANGED <<cfg, renderVars, pair, tileRects, pt>>

MeshTransform ==
    /\ renderPc = "transform"
    /\ call.pc = "call"
    /\ call.shape.kind = "Mesh"
    /\ call' = [call EXCEPT !.pc = "done",
                            !.result = Mesh_transform(call.shape, call.transform)]
    /\ UNCHANGED <<cfg, renderVars, pair, tileRects, pt>>

NextTransform == PlaneTransform \/ MeshTransform

SpecTransform == InitTransform /\ [][NextTransform]_vars

(***************************************************************************)
(* FairSpec: the render driver under fair scheduling.  A pool thread that  *)
(* can take a step eventually takes one, a pending tile is eventually      *)
(* handed to an idle thread, and the caller of for_each resumes once the   *)
(* tile tasks have ended.  The mutex itself is not assumed to be fair.     *)
(***************************************************************************)
WorkerStep(w) ==
    /\ w \in DOMAIN task
    /\ \/ StartPixel(w)
       \/ Sample(w)
       \/ TracePanics(w)
       \/ NextSample(w)
       \/ Average(w)
       \/ Lock(w)
       \/ Write(w)
       \/ Inc(w)
       \/ Unlock(w)

Schedule ==
    \E w \in Workers, i \in DOMAIN tileState : TakeTile(w, i) \/ TakeTilePanics(w, i)

\* One row of pixels in one or two tiles.
FairRenderConfigs ==
    {c \in RenderConfigs :
        /\ c.height = 1
        /\ c.width \in {1, tile_size, tile_size + 1}
        /\ c.sampler.samples_per_pixel <= MaxFairSpp
        /\ c.sampler.x_strata <= MaxFairSpp + 1
        /\ c.sampler.y_strata = 1}

InitFair == InitRender /\ cfg \in FairRenderConfigs

FairSpec ==
    /\ InitFair
    /\ [][Next]_vars
    /\ \A w \in 1 .. MaxParallelism : WF_vars(WorkerStep(w))
    /\ WF_vars(Schedule)
    /\ WF_vars(Return \/ Panic)

(***************************************************************************)
(* SpecPixel: the normalized coordinates render computes for one sample of *)
(* one pixel (renderer.rs:112-120), in exact arithmetic.  The offsets are  *)
(* the pair returned by get_2d, in [0, 1) on a grid of OffsetSteps steps.  *)
(***************************************************************************)
MaxSide == 3            \* image width and height in SpecPixel
OffsetSteps == 4        \* grid of the jitter offsets in [0, 1)

\* renderer.rs:118.
normalized_u(x, u_offset, width) ==
    QDiv(QAdd(QAdd(QInt(x), u_offset), Quot(1, 2)), QInt(width))

\* renderer.rs:119.
normalized_v(y, v_offset, height) ==
    QSub(QInt(1), QDiv(QAdd(QAdd(QInt(y), v_offset), Quot(1, 2)), QInt(height)))

Offsets == {Quot(k, OffsetSteps) : k \in 0..(OffsetSteps - 1)}

InitPixel ==
    /\ OnlyCall("pixel")
    /\ \E width, height \in 1..MaxSide :
       \E x \in 0..(width - 1), y \in 0..(height - 1) :
       \E u_offset, v_offset \in Offsets :
          call = [pc |-> "call", width |-> width, height |-> height,
                  x |-> x, y |-> y,
                  u_offset |-> u_offset, v_offset |-> v_offset,
                  u |-> QInt(0), v |-> QInt(0)]

\* One pass of the sample loop up to create_ray (renderer.rs:117-120).
PixelCoordinates ==
    /\ renderPc = "pixel"
    /\ call.pc = "call"
    /\ call' = [call EXCEPT !.pc = "done",
                            !.u = normalized_u(call.x, call.u_offset, call.width),
                            !.v = normalized_v(call.y, call.v_offset, call.height)]
    /\ UNCHANGED <<cfg, renderVars, pair, tileRects, pt>>

NextPixel == PixelCoordinates

SpecPixel == InitPixel /\ [][NextPixel]_vars

(***************************************************************************)
(* Properties                                                              *)
(***************************************************************************)
Running(w) == task[w].pc # "idle"

WrittenPixels == {p \in DOMAIN img.writes : img.writes[p] >= 1}

\* C1 (as stated): when the sample loop of a pixel has ended, the number of
\* radiance values accumulated into the pixel equals samples_per_pixel(),
\* the divisor of the average, for either sampler variant.
C1_AccumulatedEqualsDivisor ==
    \A w \in DOMAIN task :
        task[w].pc = "averaged" => task[w].accumulated = task[w].spp

\* C2 (as stated): built with the same samples_per_pixel = N, the two
\* samplers give the same start_next_sample results after start_pixel:
\* true for each advance to a further one of the N samples (the first N - 1
\* calls), false from then on.
C2_SameNextSampleResults ==
    /\ pair.rseq = pair.sseq
    /\ \A i \in 1 .. Len(pair.rseq) :
          pair.rseq[i] <=> (i <= pair.random.samples_per_pixel - 1)

\* C3: once all tile rectangles are computed they are pairwise disjoint,
\* lie inside the image, and together contain every pixel of the image.
C3_TilesPartitionImage ==
    Len(tileRects) = tile_count(cfg.width, cfg.height) =>
        /\ \A i \in DOMAIN tileRects :
              RectPixels(tileRects[i]) \subseteq ImagePixels(cfg.width, cfg.height)
        /\ \A i, j \in DOMAIN tileRects :
              i # j => RectPixels(tileRects[i]) \cap RectPixels(tileRects[j]) = {}
        /\ UNION {RectPixels(tileRects[i]) : i \in DOMAIN tileRects}
              = ImagePixels(cfg.width, cfg.height)

C3_Witness ==
    /\ Len(tileRects) = tile_count(cfg.width, cfg.height)
    /\ Len(tileRects) >= 4
    /\ cfg.width % tile_size # 0
    /\ cfg.height % tile_size # 0

\* C4: when render has returned, every pixel of the image has been written
\* exactly once; when a tile task has aborted, render does not return.
C4_ReturnedImageComplete ==
    /\ renderPc = "returned" =>
          \A p \in ImagePixels(cfg.width, cfg.height) : img.writes[p] = 1
    /\ (\E i \in DOMAIN tileState : tileState[i] = "aborted") =>
          renderPc # "returned"

C4_Witness ==
    /\ renderPc = "returned"
    /\ cfg.parallelism >= 2
    /\ tile_count(cfg.width, cfg.height) >= 2

\* C5: at most one worker is writing a pixel, and a worker that is writing
\* holds the image mutex.
C5_WritesMutuallyExclusive ==
    LET writers == {w \in DOMAIN task : task[w].pc = "write"}
    IN /\ Cardinality(writers) <= 1
       /\ \A w \in writers : img.lock = w

C5_Witness ==
    \E w, v \in DOMAIN task : task[w].pc = "write" /\ task[v].pc = "lock"

\* C6: every sampler instance is called by the task of one tile only, two
\* running tasks never hold the same instance, and the instance a task
\* holds has been called by no other task.
C6_SamplerPrivateToTask ==
    /\ \A h \in DOMAIN samplers : Cardinality(samplers[h].users) <= 1
    /\ \A w, v \in DOMAIN task :
          (w # v /\ Running(w) /\ Running(v)) => task[w].sampler # task[v].sampler
    /\ \A w \in DOMAIN task :
          Running(w) => samplers[task[w].sampler].users \subseteq {task[w].tile}

C6_Witness ==
    /\ cfg.parallelism >= 2
    /\ Len(samplers) >= 2
    /\ \A h \in DOMAIN samplers : samplers[h].users # {}
    /\ \A w \in DOMAIN task : task[w].pc = "next_sample"

\* C7: the progress counter counts the completed pixels: it is the number
\* of pixels written, less the one whose increment is about to happen, so
\* it never exceeds the pixels written; on return it is width * height.
C7_ProgressCountsPixels ==
    /\ progress <= Cardinality(WrittenPixels)
    /\ progress + Cardinality({w \in DOMAIN task : task[w].pc = "inc"})
          = Cardinality(WrittenPixels)
    /\ renderPc = "returned" => progress = cfg.width * cfg.height

C7_Witness ==
    /\ renderPc = "returned"
    /\ progress = cfg.width * cfg.height
    /\ progress > tile_size

\* C8: every run of path generation ends, and the path it returns holds
\* the camera vertex and at most max_depth surface vertices.
C8_PathGenerationTerminates ==
    <>(pt.pc = "done" /\ Len(pt.path) <= pt.max_depth + 1)

C8_Witness ==
    /\ pt.pc = "done"
    /\ pt.max_depth >= 2
    /\ Len(pt.path) = pt.max_depth + 1

\* C9 (as stated): the continuation probability is 1 below the minimum
\* depth, and at or beyond it one fixed constant whatever the throughput:
\* all the probabilities a path uses at depths >= min_depth are equal.
C9_ConstantContinuationProbability ==
    /\ (pt.roulette.depth >= 0 /\ pt.roulette.depth < pt.min_depth) =>
          pt.roulette.prob = FOne
    /\ Cardinality(pt.probs) <= 1

\* C9 (amended): the continuation probability used at depth d is 1 when
\* d <= min_depth and min(max_component(beta), 1) of the throughput when
\* d > min_depth; roulette ends the path exactly when the drawn sample
\* exceeds that probability.
C9_ThroughputContinuationProbability ==
    pt.roulette.depth >= 0 =>
        /\ pt.roulette.depth <= pt.min_depth => pt.roulette.prob = FOne
        /\ pt.roulette.depth > pt.min_depth =>
              pt.roulette.prob =
                  LET m == max_component(pt.roulette.beta)
                  IN IF m.c = "fin" /\ m.v < One THEN m ELSE FOne
        /\ pt.roulette.ended <=>
              (pt.roulette.prob.c = "fin" /\ pt.roulette.u.v > pt.roulette.prob.v)
        /\ (pt.roulette.ended /\ pt.roulette.depth = pt.depth) =>
              pt.pc \in {"connect", "done"}

C9_Witness ==
    /\ pt.roulette.depth > pt.min_depth
    /\ pt.roulette.prob # FOne
    /\ pt.roulette.ended

\* C10: in a scene without an emissive material, trace returns exactly
\* zero radiance.
C10_NoLightNoRadiance ==
    (pt.pc = "done" /\ \A m \in pt.scene : m.kind # "Emissive") =>
        pt.color = VZero

C10_Witness ==
    /\ pt.pc = "done"
    /\ pt.scene # {}
    /\ \A m \in pt.scene : m.kind # "Emissive"
    /\ Len(pt.path) >= 3
    /\ pt.color = VZero

\* C11 (as stated): connect panics with "not implemented" for every call
\* with s > 0, whatever t and the camera vertices are; only s = 0 returns.
C11_PanicsForEveryLightVertex ==
    (renderPc = "connect" /\ call.pc # "called")
        => (call.pc = "panicked" <=> call.s > 0)

\* C11 (amended): connect panics with "not implemented" exactly for the
\* calls with s > 0 whose camera vertex t is not an emissive vertex behind
\* the first one; for s > 0, t > 1 and an emissive vertex t it returns zero.
C11_PanicsUnlessEmissiveVertex ==
    (renderPc = "connect" /\ call.pc # "called")
        => LET early == call.t > 1 /\ call.s > 0
                        /\ emissive_material(call.camera_vertices[call.t].material)
           IN /\ call.pc = "panicked" <=> (call.s > 0 /\ ~early)
              /\ early => (call.pc = "returned" /\ call.color = VZero)

C11_Witness ==
    /\ renderPc = "connect"
    /\ call.pc = "panicked"
    /\ call.s > 0
    /\ call.t > 1

\* The hits of all objects of the scanned list, each asked on its own with
\* the whole window of the call.
ScanHits ==
    IF call.kind = "scene"
    THEN {h \in {Object_intersect(call.objects[k], call.ray, call.t_min, call.t_max) :
                    k \in 1..Len(call.objects)} : h.hit}
    ELSE {h \in {face_intersect(call.vertices, call.objects[k], call.ray,
                                call.t_min, call.t_max) :
                    k \in 1..Len(call.objects)} : h.hit}

ScanResultIsNearest ==
    (renderPc = "scan" /\ call.pc = "returned")
        => /\ call.st.hit_record.hit <=> ScanHits # {}
           /\ call.st.hit_record.hit
                 => /\ \A h \in ScanHits : QLe(call.st.hit_record.t, h.t)
                    /\ \E h \in ScanHits : QEq(call.st.hit_record.t, h.t)

ScanBoundShrinks ==
    (renderPc = "scan" /\ call.pc = "scan" /\ call'.pc = "scan")
        => QLe(call'.st.closest_so_far, call.st.closest_so_far)

\* C12: Scene.intersect returns no hit exactly when no object is hit at
\* t >= epsilon, and otherwise a hit whose t is the minimum over the hits of
\* all objects, for every ordering of the list; Mesh.intersect does the same
\* over its faces within [t_min, t_max]; the upper bound passed to the
\* successive objects never increases.
C12_ScanReturnsNearestHit == []ScanResultIsNearest /\ [][ScanBoundShrinks]_vars

C12_Witness ==
    /\ renderPc = "scan"
    /\ call.pc = "returned"
    /\ Len(call.objects) >= 2
    /\ Cardinality(ScanHits) >= 2
    /\ \E h \in ScanHits : QLt(call.st.hit_record.t, h.t)
    /\ QLt(call.st.hit_record.t,
           IF call.kind = "scene"
           THEN Object_intersect(call.objects[1], call.ray, call.t_min, call.t_max).t
           ELSE face_intersect(call.vertices, call.objects[1], call.ray,
                               call.t_min, call.t_max).t)

\* C13 (as stated): a mesh with a face of unsupported arity (a number of
\* vertex indices other than 3 or 4) is rejected by load_mesh before
\* rendering begins, so Mesh.intersect never meets such a face.
C13_UnsupportedFaceRejectedAtLoad ==
    (renderPc = "scan" /\ call.kind = "mesh" /\ call.pc \notin {"load", "rejected"})
        => /\ \A k \in 1..Len(call.objects) : face_supported(call.objects[k])
           /\ call.pc # "panicked"

\* C14 (as stated): a Quadrilateral whose four vertices are not coplanar
\* (tolerance 1e-3) or not convex is rejected when it is constructed from
\* its configuration; intersect only runs on quadrilaterals that passed
\* both checks.
C14_InvalidQuadrilateralRejected ==
    (renderPc = "shape" /\ call.config.kind = "Quadrilateral"
                        /\ call.pc \in {"built", "done"})
        => LET v == call.shape.vertices
           IN /\ are_points_coplanar(v[1], v[2], v[3], v[4])
              /\ is_quadrilateral_convex(v[1], v[2], v[3], v[4])

\* Both solvers miss, or both hit with the same t, point and normal.
SameHit(h1, h2) ==
    IF h1.hit /\ h2.hit
    THEN /\ QEq(h1.t, h2.t)
         /\ \A i \in 1..3 : QEq(h1.p[i], h2.p[i]) /\ QEq(h1.normal[i], h2.normal[i])
    ELSE ~h1.hit /\ ~h2.hit

\* C15 (as stated): for every ray and sphere (radius > 0, direction not
\* zero) and every window [t_min, t_max], Sphere.intersect_analytic and
\* Sphere.intersect_geometric both report no hit or both report a hit with
\* the same t, point and normal.
C15_SolversAgree ==
    (renderPc = "shape" /\ call.pc = "done" /\ call.shape.kind = "Sphere")
        => SameHit(call.analytic, call.result)

\* The same for the rays whose direction is a unit vector.
SolversAgreeOnUnitRays ==
    (renderPc = "shape" /\ call.pc = "done" /\ call.shape.kind = "Sphere"
                        /\ UnitDirection(call.ray))
        => SameHit(call.analytic, call.result)

QuadrilateralIsConvexPlanar ==
    LET v == call.shape.vertices
    IN /\ are_points_coplanar(v[1], v[2], v[3], v[4])
       /\ is_quadrilateral_convex(v[1], v[2], v[3], v[4])

\* C16 (as stated): for every convex planar quadrilateral v0, v1, v2, v3 and
\* every ray, quadrilateral_intersect reports a hit exactly when
\* triangle_intersect hits (v0, v1, v2) or (v0, v2, v3), and then its hit
\* point is that of the nearer of the two triangle hits.
C16_QuadrilateralMatchesTriangles ==
    (renderPc = "shape" /\ call.pc = "done" /\ call.shape.kind = "Quadrilateral"
                        /\ QuadrilateralIsConvexPlanar)
        => LET tri == hit_triangle(call.hit_triangle_0, call.hit_triangle_1)
           IN /\ call.result.hit <=> tri.hit
              /\ call.result.hit
                    => \A i \in 1..3 : QEq(at(call.ray, call.result.t)[i],
                                           at(call.ray, tri.t)[i])

\* The same where the hit is not at an end of the window and no three
\* consecutive vertices of the quadrilateral are collinear.
QuadrilateralStrictlyConvex ==
    LET v == call.shape.vertices
        turn(a, b, c) == Cross(Sub(b, a), Sub(c, b))
    IN /\ QuadrilateralIsConvexPlanar
       /\ \A k \in 1..4 :
             turn(v[k], v[(k % 4) + 1], v[((k + 1) % 4) + 1]) # <<0, 0, 0>>

QuadrilateralMatchesTrianglesInside ==
    (renderPc = "shape" /\ call.pc = "done" /\ call.shape.kind = "Quadrilateral"
                        /\ QuadrilateralStrictlyConvex)
        => LET tri == hit_triangle(call.hit_triangle_0, call.hit_triangle_1)
               whole == quadrilateral_intersect(call.shape.vertices[1],
                           call.shape.vertices[2], call.shape.vertices[3],
                           call.shape.vertices[4], call.ray, QInt(0 - 1), F64_MAX)
               inside == whole.hit /\ QLt(call.t_min, whole.t) /\ QLt(whole.t, call.t_max)
               outside == ~whole.hit \/ QLt(whole.t, call.t_min) \/ QGt(whole.t, call.t_max)
           IN /\ inside => (call.result.hit /\ tri.hit /\ QEq(call.result.t, tri.t))
              /\ outside => (~call.result.hit /\ ~tri.hit)

\* C17: whenever refraction is impossible for the incoming ray (total
\* internal reflection), IdealDielectric.scatter returns the mirror-reflected
\* ray for every value of the uniform sample: never None, never a refracted
\* ray.
C17_TotalReflectionAlwaysReflects ==
    (renderPc = "dielectric" /\ call.pc = "done"
                             /\ total_internal_reflection(call.ior, call.dot))
        => call.result.kind = "reflected"

C17_Witness ==
    /\ renderPc = "dielectric"
    /\ call.pc = "done"
    /\ total_internal_reflection(call.ior, call.dot)
    /\ call.r.n = MaxCos - 1
    /\ call.result.kind = "reflected"

\* v lies in the bin [b / n, (b + 1) / n).
InBin(v, b, n) == QLe(Quot(b, n), v) /\ QLt(v, Quot(b + 1, n))
InClosedBin(v, b, n) == QLe(Quot(b, n), v) /\ QLe(v, Quot(b + 1, n))

IsPermutationOf(a, b) ==
    \E perm \in Perms(Len(b)) : a = [i \in 1..Len(b) |-> b[perm[i]]]

\* C18 (as stated): after start_pixel on a StratifiedSampler with
\* N = X * Y samples, the N values of a 1-D dimension fall one in each of
\* the N bins [i/N, (i+1)/N), the N pairs of a 2-D dimension one in each
\* cell of the X-by-Y grid, and the shuffle only permutes them.
C18_OneSamplePerStratum ==
    (renderPc = "strata" /\ call.pc = "done")
        => LET N == call.samples_per_pixel
               s == call.dim_samples
           IN /\ IsPermutationOf(s, call.generated)
              /\ call.kind = "1d"
                    => \A b \in 0 .. N - 1 :
                          Cardinality({i \in 1..N : InBin(s[i], b, N)}) = 1
              /\ call.kind = "2d"
                    => \A cx \in 0 .. call.x_strata - 1, cy \in 0 .. call.y_strata - 1 :
                          Cardinality({i \in 1..N :
                                          /\ InBin(s[i][1], cx, call.x_strata)
                                          /\ InBin(s[i][2], cy, call.y_strata)}) = 1

\* The samples lie in the closed strata, in the order of generation before
\* the shuffle, and the shuffle only permutes them.
SamplesInClosedStrata ==
    (renderPc = "strata" /\ call.pc = "done")
        => LET N == call.samples_per_pixel
               g == call.generated
           IN /\ IsPermutationOf(call.dim_samples, g)
              /\ call.kind = "1d" => \A i \in 1..N : InClosedBin(g[i], i - 1, N)
              /\ call.kind = "2d"
                    => \A i \in 1..N :
                          /\ InClosedBin(g[i][1], (i - 1) % call.x_strata, call.x_strata)
                          /\ InClosedBin(g[i][2], (i - 1) \div call.x_strata,
                                         call.y_strata)
\* C19: every hit returned by the intersect of a sphere, a plane, a
\* triangle or a quadrilateral has its t inside the query window:
\* t_min <= t <= t_max.
C19_HitInsideWindow ==
    (renderPc = "shape" /\ call.pc = "done" /\ call.result.hit)
        => /\ QLe(call.t_min, call.result.t)
           /\ QLe(call.result.t, call.t_max)

\* A plane hit exactly at the far end of a finite window.
C19_Witness ==
    /\ renderPc = "shape"
    /\ call.pc = "done"
    /\ call.shape.kind = "Plane"
    /\ call.result.hit
    /\ QGt(call.result.t, call.t_min)
    /\ QEq(call.result.t, call.t_max)

\* Vec3D::is_finite: no component is NaN or infinite.
is_finite(v) == \A i \in 1..3 : v[i].c = "fin"

\* C20 (as stated): when the throughput beta becomes non-finite during
\* path generation, the path contributes nothing: no non-finite value
\* reaches the radiance that trace returns.
C20_RadianceIsFinite ==
    (renderPc = "path" /\ pt.pc = "done") => is_finite(pt.color)

\* The steps of the configuration that are enabled, in the order tone
\* mapping, gamma correction, white balance.
EnabledSteps(config) ==
    (IF config.tone_mapping = "reinhard"
     THEN <<[f |-> "reinhard_tone_mapping", balance |-> NoBalance]>> ELSE <<>>)
    \o (IF config.gamma_correction
        THEN <<[f |-> "gamma_correction", balance |-> NoBalance]>> ELSE <<>>)
    \o (IF config.white_balance # NoBalance
        THEN <<[f |-> "white_balance", balance |-> config.white_balance]>> ELSE <<>>)

\* C21: post_process applies the enabled steps in the order tone mapping,
\* gamma correction, white balance, and a step that is disabled or absent
\* leaves the color unchanged.
C21_PostProcessOrder ==
    (renderPc = "post" /\ call.pc = "done")
        => /\ call.result.input = call.color.input
           /\ call.result.applied = EnabledSteps(call.config)

\* All three steps enabled.
C21_Witness ==
    /\ renderPc = "post"
    /\ call.pc = "done"
    /\ call.config.tone_mapping = "reinhard"
    /\ call.config.gamma_correction
    /\ call.config.white_balance # NoBalance
    /\ Len(call.result.applied) = 3

\* The roulette sample of the current depth has been drawn.
RouletteDrawnAtDepth == pt.roulette.depth = pt.depth

\* The intersection of the current depth pushed a vertex, and the vertex
\* is not an emitter: its material emits nothing.
HitNonEmitterAtDepth ==
    /\ Len(pt.path) = pt.depth + 2
    /\ emission(pt.path[Len(pt.path)].material) = VZero

\* No roulette sample belongs to a later depth, and the sample of the
\* current depth exists only after a hit on a non-emitter at that depth.
RouletteFollowsEmissionCheck ==
    renderPc = "path"
        => /\ pt.roulette.depth <= pt.depth
           /\ (RouletteDrawnAtDepth => HitNonEmitterAtDepth)

\* A step that draws the roulette sample starts after the hit of that depth;
\* a step that requests the scatter starts after a passed roulette test of
\* that depth; the depth advances only by a scatter.
IntegratorStepOrder ==
    /\ pt'.roulette # pt.roulette
          => /\ pt.pc = "roulette"
             /\ pt.roulette.depth < pt.depth
             /\ HitNonEmitterAtDepth
             /\ pt'.roulette.depth = pt.depth
    /\ pt.pc = "scatter"
          => /\ RouletteDrawnAtDepth
             /\ ~pt.roulette.ended
             /\ ~FGt(pt.roulette.u, pt.roulette.prob)
    /\ pt'.depth # pt.depth
          => /\ pt.pc = "scatter"
             /\ pt'.depth = pt.depth + 1
             /\ pt'.pc = "intersect"
    /\ pt.pc \in {"connect", "done"} => pt'.path = pt.path /\ pt'.roulette = pt.roulette

\* C22: per camera ray the steps follow Start, then Intersect, Emit,
\* RouletteTest, Scatter repeatedly, then Terminate: the roulette sample of
\* a depth is drawn only after that depth's intersection and emission
\* check, scatter is requested only after the roulette test passed, and a
\* miss or a hit on an emitter draws no roulette sample at that depth.
C22_IntegratorStepOrder ==
    []RouletteFollowsEmissionCheck /\ [][IntegratorStepOrder]_vars

\* A path that passed two roulette tests and then hit an emitter, with no
\* roulette sample at the last depth.
C22_Witness ==
    /\ renderPc = "path"
    /\ pt.pc = "done"
    /\ pt.depth = 2
    /\ Len(pt.path) = 4
    /\ emission(pt.path[4].material) # VZero
    /\ pt.roulette.depth = 1

\* The table entry of slot k at the sample index i.
SlotValue(table, k, i) == table[k + 1][i + 1]

\* C23: within one sample index the k-th draw, counting get_1d and get_2d
\* together, returns the precomputed value of slot k at the current sample
\* index while k is below the number of dimensions, every later draw
\* returns a fresh uniform value, and start_pixel and a successful
\* start_next_sample reset the slot counter to 0.
C23_DrawsConsumeSuccessiveSlots ==
    (renderPc = "draws" /\ ~call.panicked)
        => LET s == call.sampler
               k == call.draws - 1
           IN /\ s.current_dimension = Min(call.draws, s.dimensions)
              /\ call.op = "get_1d"
                    => call.ret = IF k < s.dimensions
                                  THEN SlotValue(s.samples_1d, k, s.current_sample_index)
                                  ELSE FreshSample
              /\ call.op = "get_2d"
                    => call.ret = IF k < s.dimensions
                                  THEN SlotValue(s.samples_2d, k, s.current_sample_index)
                                  ELSE FreshSample
              /\ call.op = "start_pixel" => s.current_dimension = 0
              /\ (call.op = "start_next_sample" /\ call.result) => s.current_dimension = 0

\* The third draw of the second sample of a pixel, a get_1d after a get_2d.
C23_Witness ==
    /\ renderPc = "draws"
    /\ ~call.panicked
    /\ call.started
    /\ call.op = "get_1d"
    /\ call.draws = 3
    /\ call.sampler.current_sample_index = 1
    /\ call.ret = <<"samples_1d", 2, 1>>

\* C30 (as stated): for every StratifiedSampler that new accepts, after any
\* sequence of start_pixel, get_1d, get_2d and start_next_sample calls the
\* current sample index is below samples_per_pixel and no call panics on a
\* table access or an underflow.
C30_SamplerNeverPanics ==
    renderPc = "draws"
        => /\ ~call.panicked
           /\ call.op # "new"
                 => call.sampler.current_sample_index < call.sampler.samples_per_pixel

\* With at least one sample per pixel the index stays below
\* samples_per_pixel and no call panics.
PositiveCountNeverPanics ==
    (renderPc = "draws" /\ call.sampler.samples_per_pixel >= 1)
        => /\ ~call.panicked
           /\ call.sampler.current_sample_index < call.sampler.samples_per_pixel
           /\ \A d \in 1..call.sampler.dimensions :
                 /\ Len(call.sampler.samples_1d[d]) = call.sampler.samples_per_pixel
                 /\ Len(call.sampler.samples_2d[d]) = call.sampler.samples_per_pixel

\* Vectors lying in the surface of a shape: for a plane the grid vectors
\* perpendicular to its normal, for a mesh the edges of its face.
Tangents(shape) ==
    IF shape.kind = "Plane"
    THEN {t \in (0 - 1 .. 1) \X (0 - 1 .. 1) \X (0 - 1 .. 1) : Dot(t, shape.normal) = 0}
    ELSE {Sub(shape.vertices[2], shape.vertices[1]),
          Sub(shape.vertices[3], shape.vertices[1])}

Normals(shape) ==
    IF shape.kind = "Plane" THEN {shape.normal}
    ELSE {shape.normals[i] : i \in 1..Len(shape.normals)}

\* The normals of the transformed shape are perpendicular to the images
\* of the vectors lying in the surface.
NormalsPerpendicular ==
    \A t \in Tangents(call.shape), n \in Normals(call.result) :
        Dot(transform_vec3(call.transform, t), n) = 0

\* The linear part is a multiple of an orthogonal matrix: a rotation or a
\* uniform scaling.
IsSimilarity(m) ==
    \E k \in 1 .. MaxScale * MaxScale :
        \A i, j \in 1..3 : Dot(m.rows[i], m.rows[j]) = IF i = j THEN k ELSE 0

\* C24 (as stated): for every invertible matrix, including a non-uniform
\* scaling, the normal of a transformed plane or mesh is perpendicular to
\* the transformed surface.
C24_TransformedNormalPerpendicular ==
    (renderPc = "transform" /\ call.pc = "done") => NormalsPerpendicular

\* For rotations, translations and uniform scalings the transformed
\* normals are perpendicular to the transformed surface.
SimilarityKeepsNormalsPerpendicular ==
    (renderPc = "transform" /\ call.pc = "done" /\ IsSimilarity(call.transform))
        => NormalsPerpendicular

\* The holder of the image mutex is between its lock and the end of the
\* loop body: it is not waiting for the mutex, for a tile or for a task.
HolderNeverWaits ==
    renderPc \in {"running", "returned", "panicked"}
        => /\ img.lock \in {0} \cup DOMAIN task
           /\ \A w \in DOMAIN task :
                 img.lock = w <=> task[w].pc \in {"write", "inc", "unlock"}

\* C25 (as stated): under fair scheduling of the worker pool every started
\* tile task runs to completion and render eventually returns.
C25_RenderEventuallyReturns ==
    (renderPc = "running") ~> (renderPc = "returned")

\* Under fair scheduling every started tile task ends, completed or
\* aborted by a panic, render eventually returns or panics, and it returns
\* when no tile task panicked; no worker waits forever for the image
\* mutex, and the holder of the mutex never waits.
C25_RenderEventuallyEnds ==
    /\ (renderPc = "running") ~> (renderPc \in {"returned", "panicked"})
    /\ \A i \in 0 .. tile_count(MaxWidth, MaxHeight) - 1 :
          (renderPc = "running" /\ i \in DOMAIN tileState /\ tileState[i] = "running")
              ~> (i \in DOMAIN tileState /\ tileState[i] \in {"done", "aborted"})
    /\ \A w \in 1 .. MaxParallelism :
          (renderPc = "running" /\ w \in DOMAIN task /\ task[w].pc = "lock")
              ~> (w \in DOMAIN task /\ task[w].pc = "write")
    /\ [](renderPc = "panicked" => \E i \in DOMAIN tileState : tileState[i] = "aborted")
    /\ []HolderNeverWaits

\* One worker waits for the mutex while another holds it.
C25_Witness ==
    /\ renderPc = "running"
    /\ \E w, v \in DOMAIN task :
          /\ task[w].pc = "lock"
          /\ task[v].pc = "unlock"
          /\ img.lock = v

\* The steps of a pixel before its write: start_pixel, the sample loop with
\* trace, the average and post_process.
Tracing(w) == task[w].pc \in {"start_pixel", "sample", "next_sample", "averaged"}

\* C26: no worker holds the image mutex while tracing: the mutex is taken
\* only after the pixel has been sampled, averaged and post-processed, and
\* it is released before the sampling of the next pixel begins.
C26_NoTracingUnderLock ==
    renderPc = "running"
        => \A w \in DOMAIN task :
              /\ Tracing(w) => img.lock # w
              /\ img.lock = w
                    => /\ task[w].pc \in {"write", "inc", "unlock"}
                       /\ task[w].accumulated >= task[w].spp

\* One worker traces while another holds the mutex.
C26_Witness ==
    /\ renderPc = "running"
    /\ \E w, v \in DOMAIN task :
          /\ w # v
          /\ task[w].pc = "sample"
          /\ task[w].accumulated >= 1
          /\ img.lock = v

\* C27 (as stated): whenever path generation continues past the roulette
\* test, the continuation probability by which beta is divided is strictly
\* positive, for every sampler value in [0, 1) and every throughput.
C27_ContinuationProbabilityPositive ==
    (renderPc = "path" /\ pt.roulette.depth >= 0 /\ ~pt.roulette.ended)
        => FGt(pt.roulette.prob, FZero)

\* The path passes the roulette test with probability 0 only with the
\* sampler value 0 and a throughput whose largest component is 0.
ZeroProbabilityNeedsZeroSample ==
    (renderPc = "path" /\ pt.roulette.depth >= 0 /\ ~pt.roulette.ended
        /\ ~FGt(pt.roulette.prob, FZero))
        => /\ pt.roulette.u = FZero
           /\ max_component(pt.roulette.beta) = FZero
           /\ pt.roulette.depth > pt.min_depth

\* The vertices of the path whose material emits.
EmissiveVertices == {i \in 1..Len(pt.path) : emission(pt.path[i].material) # VZero}

\* C28: in every path returned by generate_camera_vertices at most one
\* vertex has an emissive material, and it is the last one; trace returns
\* the product of the last vertex's throughput and its emission when the
\* last vertex emits, and zero otherwise.
C28_OnlyLastVertexEmits ==
    renderPc = "path"
        => /\ EmissiveVertices \subseteq {Len(pt.path)}
           /\ pt.pc \in {"intersect", "roulette", "scatter"}
                 => (EmissiveVertices # {} => pt.pc = "intersect")
           /\ pt.pc = "done"
                 => pt.color = IF EmissiveVertices = {} THEN VZero
                               ELSE mul_element_wise(pt.path[Len(pt.path)].beta,
                                       emission(pt.path[Len(pt.path)].material))

\* A returned path of four vertices that ends on an emitter and carries a
\* non-zero radiance.
C28_Witness ==
    /\ renderPc = "path"
    /\ pt.pc = "done"
    /\ Len(pt.path) = 4
    /\ EmissiveVertices = {4}
    /\ pt.color # VZero
    /\ is_finite(pt.color)

\* C29 (as stated): for every pixel (x, y) with x < W, y < H and every
\* jitter offset pair in [0, 1) x [0, 1), the normalized coordinates handed
\* to the camera satisfy 0 <= u <= 1 and 0 <= v <= 1.
C29_CoordinatesInUnitSquare ==
    (renderPc = "pixel" /\ call.pc = "done")
        => /\ QLe(QInt(0), call.u) /\ QLe(call.u, QInt(1))
           /\ QLe(QInt(0), call.v) /\ QLe(call.v, QInt(1))

\* What does hold: the sample lies in the pixel's cell shifted by half a
\* pixel, so u is in [(x + 1/2) / W, (x + 3/2) / W) and v is in
\* (1 - (y + 3/2) / H, 1 - (y + 1/2) / H]; it leaves the unit square by
\* less than half a pixel, and only with an offset above 1/2 in the last
\* column or the last row.
CoordinatesInShiftedCell ==
    (renderPc = "pixel" /\ call.pc = "done")
        => /\ QLe(Quot(2 * call.x + 1, 2 * call.width), call.u)
           /\ QLt(call.u, Quot(2 * call.x + 3, 2 * call.width))
           /\ QLt(Quot(2 * call.height - 2 * call.y - 3, 2 * call.height), call.v)
           /\ QLe(call.v, Quot(2 * call.height - 2 * call.y - 1, 2 * call.height))
           /\ QGt(call.u, QInt(1))
                 => call.x = call.width - 1 /\ QGt(call.u_offset, Quot(1, 2))
           /\ QLt(call.v, QInt(0))
                 => call.y = call.height - 1 /\ QGt(call.v_offset, Quot(1, 2))
====
